---- MODULE Spec2Model ----
(***************************************************************************)
(* A model of watermark.py: the colour parser (parse_color), the draw      *)
(* origin of add_watermark_to_image, and main() run over a directory       *)
(* (process_images_in_directory) with the file system it reads and writes. *)
(* Strings are sequences of characters.  A value the code computes once    *)
(* and uses several times is passed on as an operator parameter.           *)
(***************************************************************************)
EXTENDS Integers, Sequences, FiniteSets, TLC

VARIABLES
    color_string,   \* parse_color: the argument
    color_result,   \* parse_color: the outcome of the call ("pending" before it)
    width,          \* add_watermark_to_image: image.size[0]
    height,         \* add_watermark_to_image: image.size[1]
    text_width,     \* add_watermark_to_image: bbox[2] - bbox[0]
    text_height,    \* add_watermark_to_image: bbox[3] - bbox[1]
    position,       \* the position argument (args.position)
    origin,         \* add_watermark_to_image: (x, y), <<>> before it is computed
    directory,      \* args.directory
    color_arg,      \* the -c/--color argument as typed, if given
    font_files,     \* the TrueType files ImageFont.truetype finds on the machine
    textbbox,       \* text -> what draw.textbbox gives with the font loaded
    font_color,     \* args.color
    fs,             \* the file system: resolved path -> entry
    fs0,            \* the file system when the program was first started
    pc,             \* where main() is
    run,            \* 1 for the first invocation, 2 for the second
    remaining,      \* names of os.listdir(directory_path) not yet iterated
    processed_count,
    written,        \* paths saved by this invocation
    opened,         \* paths this invocation opened with Image.open
    retval,         \* what process_images_in_directory returned
    summary,        \* the count printed at the end of the loop
    raised,         \* the exception that left process_images_in_directory
    first,          \* the first invocation's outcome, once it has ended
    last_image      \* the last result of add_watermark_to_image

colorVars == <<color_string, color_result>>
posVars == <<width, height, text_width, text_height, origin>>
pureVars == <<colorVars, posVars>>
argVars == <<directory, color_arg>>
machineVars == <<font_files, textbbox>>
runVars == <<font_color, fs, fs0, pc, run, remaining, processed_count, written,
             opened, retval, summary, raised, first, last_image>>
inputVars == <<pureVars, position, directory, color_arg, machineVars, fs0, run,
               first>>
vars == <<color_string, color_result, width, height, text_width, text_height,
          position, origin, directory, color_arg, font_files, textbbox,
          font_color, fs, fs0, pc, run,
          remaining, processed_count, written, opened, retval, summary, raised,
          first, last_image>>

(***************************************************************************)
(* Bounds of the model.                                                    *)
(***************************************************************************)
\* arbitrary strings over ShapeAlphabet are enumerated up to this length
MaxAnyLen == 3
\* image widths and heights range over 1..MaxDim
MaxDim == 5
\* text widths and heights range over 0..MaxText
MaxText == 6
\* a directory holds at most this many of the candidate files
MaxFiles == 2

(***************************************************************************)
(* Characters.  A character up to U+00FF is the one-character string       *)
(* itself; a character above U+00FF is the string of its code point, "U+"  *)
(* and four to six hexadecimal digits, as in "U+2003", and so is the grave *)
(* accent, "U+0060", which no string literal can hold.  Either is one      *)
(* element of a string.  The tables are those of Unicode 14.0, which       *)
(* CPython 3.11 carries.                                                   *)
(***************************************************************************)
RECURSIVE CodeHex(_, _)
\* n in hexadecimal, in w digits at least
CodeHex(n, w) ==
    IF n = 0 /\ w <= 0 THEN ""
    ELSE CodeHex(n \div 16, w - 1)
            \o <<"0","1","2","3","4","5","6","7","8","9",
                  "A","B","C","D","E","F">>[(n % 16) + 1]

\* the character of code point n, n above 255
Char(n) == "U+" \o CodeHex(n, 4)

\* the characters of a set of code point ranges <<first, last>>
Chars(ranges) == UNION {{Char(n) : n \in r[1]..r[2]} : r \in ranges}

\* the code points of the digits zero above U+00FF; the digits one to nine
\* follow each
DigitZeros ==
    {\H660, \H6F0, \H7C0, \H966, \H9E6, \HA66, \HAE6, \HB66, \HBE6, \HC66,
     \HCE6, \HD66, \HDE6, \HE50, \HED0, \HF20, \H1040, \H1090, \H17E0,
     \H1810, \H1946, \H19D0, \H1A80, \H1A90, \H1B50, \H1BB0, \H1C40,
     \H1C50, \HA620, \HA8D0, \HA900, \HA9D0, \HA9F0, \HAA50, \HABF0,
     \HFF10, \H104A0, \H10D30, \H11066, \H110F0, \H11136, \H111D0, \H112F0,
     \H11450, \H114D0, \H11650, \H116C0, \H11730, \H118E0, \H11950,
     \H11C50, \H11D50, \H11DA0, \H16A60, \H16AC0, \H16B50, \H1D7CE,
     \H1D7D8, \H1D7E2, \H1D7EC, \H1D7F6, \H1E140, \H1E2F0, \H1E950,
     \H1FBF0}

(***************************************************************************)
(* Python string primitives.                                               *)
(***************************************************************************)
SetMin(S) == CHOOSE m \in S : \A k \in S : m <= k
SetMax(S) == CHOOSE m \in S : \A k \in S : m >= k

\* str.startswith(prefix)
startswith(s, prefix) ==
    /\ Len(s) >= Len(prefix)
    /\ SubSeq(s, 1, Len(prefix)) = prefix

\* str.endswith(suffix)
endswith(s, suffix) ==
    /\ Len(s) >= Len(suffix)
    /\ SubSeq(s, Len(s) - Len(suffix) + 1, Len(s)) = suffix

\* str.endswith(tuple of suffixes)
endswith_any(s, suffixes) == \E k \in 1..Len(suffixes) : endswith(s, suffixes[k])

\* str.count(ch) for a one-character ch
str_count(s, ch) == Cardinality({i \in 1..Len(s) : s[i] = ch})

\* the separators U+001C..U+001F
Separators == {"", "", "", ""}

\* whitespace as str.strip() and the \s of strptime see it: the characters
\* for which str.isspace() holds: the ASCII characters 9-13, 28-31 and 32,
\* U+0085, U+00A0 and the spaces and separators above
Whitespace ==
    {"\t", "\n", "", "\f", "\r", " ", "", " "} \cup Separators
    \cup Chars({<<\H1680, \H1680>>, <<\H2000, \H200A>>, <<\H2028, \H2029>>,
                <<\H202F, \H202F>>, <<\H205F, \H205F>>, <<\H3000, \H3000>>})

\* whitespace as int() sees it: the separators are not skipped
IntWhitespace == Whitespace \ Separators

Between(s, keep) ==
    IF keep = {} THEN <<>> ELSE SubSeq(s, SetMin(keep), SetMax(keep))

\* str.strip()
str_strip(s) == Between(s, {i \in 1..Len(s) : s[i] \notin Whitespace})

RECURSIVE str_split(_, _)
SplitAt(s, sep, at) ==
    IF at = {} THEN <<s>>
    ELSE <<SubSeq(s, 1, SetMin(at) - 1)>>
            \o str_split(SubSeq(s, SetMin(at) + 1, Len(s)), sep)

\* str.split(sep) for a one-character sep: always at least one piece
str_split(s, sep) == SplitAt(s, sep, {i \in 1..Len(s) : s[i] = sep})

\* the upper-case letters up to U+00FF and, place for place, their lower case
UpperCase == <<"A","B","C","D","E","F","G","H","I","J","K","L","M","N","O",
               "P","Q","R","S","T","U","V","W","X","Y","Z","À","Á","Â","Ã",
               "Ä","Å","Æ","Ç","È","É","Ê","Ë","Ì","Í","Î","Ï","Ð","Ñ","Ò",
               "Ó","Ô","Õ","Ö","Ø","Ù","Ú","Û","Ü","Ý","Þ">>
LowerCase == <<"a","b","c","d","e","f","g","h","i","j","k","l","m","n","o",
               "p","q","r","s","t","u","v","w","x","y","z","à","á","â","ã",
               "ä","å","æ","ç","è","é","ê","ë","ì","í","î","ï","ð","ñ","ò",
               "ó","ô","õ","ö","ø","ù","ú","û","ü","ý","þ">>

\* every character that has a lower case other than itself, with it: the
\* letters up to U+00FF; five letters apart; and the letters above U+00FF
\* whose lower case is one character above U+00FF, in ranges <<first, last,
\* step, lower case of the first>>, the lower case of the others being as
\* far from theirs
LowerPairs ==
    {<<UpperCase[i], <<LowerCase[i]>>>> : i \in 1..Len(UpperCase)}
    \cup {<<"U+0130", <<"i", "U+0307">>>>, <<"U+0178", <<"ÿ">>>>,
          <<"U+1E9E", <<"ß">>>>, <<"U+212A", <<"k">>>>, <<"U+212B", <<"å">>>>}
    \cup UNION {{<<Char(n), <<Char(r[4] + (n - r[1]))>>>> :
                    n \in {k \in r[1]..r[2] : (k - r[1]) % r[3] = 0}} :
                r \in
     {<<\H100, \H12E, \H2, \H101>>, <<\H132, \H136, \H2, \H133>>,
     <<\H139, \H147, \H2, \H13A>>, <<\H14A, \H176, \H2, \H14B>>,
     <<\H179, \H17D, \H2, \H17A>>, <<\H181, \H181, \H1, \H253>>,
     <<\H182, \H184, \H2, \H183>>, <<\H186, \H186, \H1, \H254>>,
     <<\H187, \H187, \H1, \H188>>, <<\H189, \H18A, \H1, \H256>>,
     <<\H18B, \H18B, \H1, \H18C>>, <<\H18E, \H18E, \H1, \H1DD>>,
     <<\H18F, \H18F, \H1, \H259>>, <<\H190, \H190, \H1, \H25B>>,
     <<\H191, \H191, \H1, \H192>>, <<\H193, \H193, \H1, \H260>>,
     <<\H194, \H194, \H1, \H263>>, <<\H196, \H196, \H1, \H269>>,
     <<\H197, \H197, \H1, \H268>>, <<\H198, \H198, \H1, \H199>>,
     <<\H19C, \H19C, \H1, \H26F>>, <<\H19D, \H19D, \H1, \H272>>,
     <<\H19F, \H19F, \H1, \H275>>, <<\H1A0, \H1A4, \H2, \H1A1>>,
     <<\H1A6, \H1A6, \H1, \H280>>, <<\H1A7, \H1A7, \H1, \H1A8>>,
     <<\H1A9, \H1A9, \H1, \H283>>, <<\H1AC, \H1AC, \H1, \H1AD>>,
     <<\H1AE, \H1AE, \H1, \H288>>, <<\H1AF, \H1AF, \H1, \H1B0>>,
     <<\H1B1, \H1B2, \H1, \H28A>>, <<\H1B3, \H1B5, \H2, \H1B4>>,
     <<\H1B7, \H1B7, \H1, \H292>>, <<\H1B8, \H1B8, \H1, \H1B9>>,
     <<\H1BC, \H1BC, \H1, \H1BD>>, <<\H1C4, \H1C4, \H1, \H1C6>>,
     <<\H1C5, \H1C5, \H1, \H1C6>>, <<\H1C7, \H1C7, \H1, \H1C9>>,
     <<\H1C8, \H1C8, \H1, \H1C9>>, <<\H1CA, \H1CA, \H1, \H1CC>>,
     <<\H1CB, \H1DB, \H2, \H1CC>>, <<\H1DE, \H1EE, \H2, \H1DF>>,
     <<\H1F1, \H1F1, \H1, \H1F3>>, <<\H1F2, \H1F4, \H2, \H1F3>>,
     <<\H1F6, \H1F6, \H1, \H195>>, <<\H1F7, \H1F7, \H1, \H1BF>>,
     <<\H1F8, \H21E, \H2, \H1F9>>, <<\H220, \H220, \H1, \H19E>>,
     <<\H222, \H232, \H2, \H223>>, <<\H23A, \H23A, \H1, \H2C65>>,
     <<\H23B, \H23B, \H1, \H23C>>, <<\H23D, \H23D, \H1, \H19A>>,
     <<\H23E, \H23E, \H1, \H2C66>>, <<\H241, \H241, \H1, \H242>>,
     <<\H243, \H243, \H1, \H180>>, <<\H244, \H244, \H1, \H289>>,
     <<\H245, \H245, \H1, \H28C>>, <<\H246, \H24E, \H2, \H247>>,
     <<\H370, \H372, \H2, \H371>>, <<\H376, \H376, \H1, \H377>>,
     <<\H37F, \H37F, \H1, \H3F3>>, <<\H386, \H386, \H1, \H3AC>>,
     <<\H388, \H38A, \H1, \H3AD>>, <<\H38C, \H38C, \H1, \H3CC>>,
     <<\H38E, \H38F, \H1, \H3CD>>, <<\H391, \H3A1, \H1, \H3B1>>,
     <<\H3A3, \H3AB, \H1, \H3C3>>, <<\H3CF, \H3CF, \H1, \H3D7>>,
     <<\H3D8, \H3EE, \H2, \H3D9>>, <<\H3F4, \H3F4, \H1, \H3B8>>,
     <<\H3F7, \H3F7, \H1, \H3F8>>, <<\H3F9, \H3F9, \H1, \H3F2>>,
     <<\H3FA, \H3FA, \H1, \H3FB>>, <<\H3FD, \H3FF, \H1, \H37B>>,
     <<\H400, \H40F, \H1, \H450>>, <<\H410, \H42F, \H1, \H430>>,
     <<\H460, \H480, \H2, \H461>>, <<\H48A, \H4BE, \H2, \H48B>>,
     <<\H4C0, \H4C0, \H1, \H4CF>>, <<\H4C1, \H4CD, \H2, \H4C2>>,
     <<\H4D0, \H52E, \H2, \H4D1>>, <<\H531, \H556, \H1, \H561>>,
     <<\H10A0, \H10C5, \H1, \H2D00>>, <<\H10C7, \H10C7, \H1, \H2D27>>,
     <<\H10CD, \H10CD, \H1, \H2D2D>>, <<\H13A0, \H13EF, \H1, \HAB70>>,
     <<\H13F0, \H13F5, \H1, \H13F8>>, <<\H1C90, \H1CBA, \H1, \H10D0>>,
     <<\H1CBD, \H1CBF, \H1, \H10FD>>, <<\H1E00, \H1E94, \H2, \H1E01>>,
     <<\H1EA0, \H1EFE, \H2, \H1EA1>>, <<\H1F08, \H1F0F, \H1, \H1F00>>,
     <<\H1F18, \H1F1D, \H1, \H1F10>>, <<\H1F28, \H1F2F, \H1, \H1F20>>,
     <<\H1F38, \H1F3F, \H1, \H1F30>>, <<\H1F48, \H1F4D, \H1, \H1F40>>,
     <<\H1F59, \H1F5F, \H2, \H1F51>>, <<\H1F68, \H1F6F, \H1, \H1F60>>,
     <<\H1F88, \H1F8F, \H1, \H1F80>>, <<\H1F98, \H1F9F, \H1, \H1F90>>,
     <<\H1FA8, \H1FAF, \H1, \H1FA0>>, <<\H1FB8, \H1FB9, \H1, \H1FB0>>,
     <<\H1FBA, \H1FBB, \H1, \H1F70>>, <<\H1FBC, \H1FBC, \H1, \H1FB3>>,
     <<\H1FC8, \H1FCB, \H1, \H1F72>>, <<\H1FCC, \H1FCC, \H1, \H1FC3>>,
     <<\H1FD8, \H1FD9, \H1, \H1FD0>>, <<\H1FDA, \H1FDB, \H1, \H1F76>>,
     <<\H1FE8, \H1FE9, \H1, \H1FE0>>, <<\H1FEA, \H1FEB, \H1, \H1F7A>>,
     <<\H1FEC, \H1FEC, \H1, \H1FE5>>, <<\H1FF8, \H1FF9, \H1, \H1F78>>,
     <<\H1FFA, \H1FFB, \H1, \H1F7C>>, <<\H1FFC, \H1FFC, \H1, \H1FF3>>,
     <<\H2126, \H2126, \H1, \H3C9>>, <<\H2132, \H2132, \H1, \H214E>>,
     <<\H2160, \H216F, \H1, \H2170>>, <<\H2183, \H2183, \H1, \H2184>>,
     <<\H24B6, \H24CF, \H1, \H24D0>>, <<\H2C00, \H2C2F, \H1, \H2C30>>,
     <<\H2C60, \H2C60, \H1, \H2C61>>, <<\H2C62, \H2C62, \H1, \H26B>>,
     <<\H2C63, \H2C63, \H1, \H1D7D>>, <<\H2C64, \H2C64, \H1, \H27D>>,
     <<\H2C67, \H2C6B, \H2, \H2C68>>, <<\H2C6D, \H2C6D, \H1, \H251>>,
     <<\H2C6E, \H2C6E, \H1, \H271>>, <<\H2C6F, \H2C6F, \H1, \H250>>,
     <<\H2C70, \H2C70, \H1, \H252>>, <<\H2C72, \H2C72, \H1, \H2C73>>,
     <<\H2C75, \H2C75, \H1, \H2C76>>, <<\H2C7E, \H2C7F, \H1, \H23F>>,
     <<\H2C80, \H2CE2, \H2, \H2C81>>, <<\H2CEB, \H2CED, \H2, \H2CEC>>,
     <<\H2CF2, \H2CF2, \H1, \H2CF3>>, <<\HA640, \HA66C, \H2, \HA641>>,
     <<\HA680, \HA69A, \H2, \HA681>>, <<\HA722, \HA72E, \H2, \HA723>>,
     <<\HA732, \HA76E, \H2, \HA733>>, <<\HA779, \HA77B, \H2, \HA77A>>,
     <<\HA77D, \HA77D, \H1, \H1D79>>, <<\HA77E, \HA786, \H2, \HA77F>>,
     <<\HA78B, \HA78B, \H1, \HA78C>>, <<\HA78D, \HA78D, \H1, \H265>>,
     <<\HA790, \HA792, \H2, \HA791>>, <<\HA796, \HA7A8, \H2, \HA797>>,
     <<\HA7AA, \HA7AA, \H1, \H266>>, <<\HA7AB, \HA7AB, \H1, \H25C>>,
     <<\HA7AC, \HA7AC, \H1, \H261>>, <<\HA7AD, \HA7AD, \H1, \H26C>>,
     <<\HA7AE, \HA7AE, \H1, \H26A>>, <<\HA7B0, \HA7B0, \H1, \H29E>>,
     <<\HA7B1, \HA7B1, \H1, \H287>>, <<\HA7B2, \HA7B2, \H1, \H29D>>,
     <<\HA7B3, \HA7B3, \H1, \HAB53>>, <<\HA7B4, \HA7C2, \H2, \HA7B5>>,
     <<\HA7C4, \HA7C4, \H1, \HA794>>, <<\HA7C5, \HA7C5, \H1, \H282>>,
     <<\HA7C6, \HA7C6, \H1, \H1D8E>>, <<\HA7C7, \HA7C9, \H2, \HA7C8>>,
     <<\HA7D0, \HA7D0, \H1, \HA7D1>>, <<\HA7D6, \HA7D8, \H2, \HA7D7>>,
     <<\HA7F5, \HA7F5, \H1, \HA7F6>>, <<\HFF21, \HFF3A, \H1, \HFF41>>,
     <<\H10400, \H10427, \H1, \H10428>>,
     <<\H104B0, \H104D3, \H1, \H104D8>>,
     <<\H10570, \H1057A, \H1, \H10597>>,
     <<\H1057C, \H1058A, \H1, \H105A3>>,
     <<\H1058C, \H10592, \H1, \H105B3>>,
     <<\H10594, \H10595, \H1, \H105BB>>,
     <<\H10C80, \H10CB2, \H1, \H10CC0>>,
     <<\H118A0, \H118BF, \H1, \H118C0>>,
     <<\H16E40, \H16E5F, \H1, \H16E60>>,
     <<\H1E900, \H1E921, \H1, \H1E922>>}}

LowerMap ==
    [c \in {p[1] : p \in LowerPairs} |-> (CHOOSE p \in LowerPairs : p[1] = c)[2]]

\* the lower case of one character: a string, of two characters for U+0130
lower_char(c) == IF c \in DOMAIN LowerMap THEN LowerMap[c] ELSE <<c>>

\* U+0027, U+002E, U+003A, U+005E, U+0060, U+00A8, U+00AD, U+00AF, U+00B4,
\* U+00B7, U+00B8 and the case-ignorable characters above
CaseIgnorable ==
    {"'", ".", ":", "^", "U+0060", "¨", "­", "¯", "´", "·", "¸"}
    \cup Chars(
     {<<\H2B0, \H36F>>, <<\H374, \H375>>, <<\H37A, \H37A>>,
     <<\H384, \H385>>, <<\H387, \H387>>, <<\H483, \H489>>,
     <<\H559, \H559>>, <<\H55F, \H55F>>, <<\H591, \H5BD>>,
     <<\H5BF, \H5BF>>, <<\H5C1, \H5C2>>, <<\H5C4, \H5C5>>,
     <<\H5C7, \H5C7>>, <<\H5F4, \H5F4>>, <<\H600, \H605>>,
     <<\H610, \H61A>>, <<\H61C, \H61C>>, <<\H640, \H640>>,
     <<\H64B, \H65F>>, <<\H670, \H670>>, <<\H6D6, \H6DD>>,
     <<\H6DF, \H6E8>>, <<\H6EA, \H6ED>>, <<\H70F, \H70F>>,
     <<\H711, \H711>>, <<\H730, \H74A>>, <<\H7A6, \H7B0>>,
     <<\H7EB, \H7F5>>, <<\H7FA, \H7FA>>, <<\H7FD, \H7FD>>,
     <<\H816, \H82D>>, <<\H859, \H85B>>, <<\H888, \H888>>,
     <<\H890, \H891>>, <<\H898, \H89F>>, <<\H8C9, \H902>>,
     <<\H93A, \H93A>>, <<\H93C, \H93C>>, <<\H941, \H948>>,
     <<\H94D, \H94D>>, <<\H951, \H957>>, <<\H962, \H963>>,
     <<\H971, \H971>>, <<\H981, \H981>>, <<\H9BC, \H9BC>>,
     <<\H9C1, \H9C4>>, <<\H9CD, \H9CD>>, <<\H9E2, \H9E3>>,
     <<\H9FE, \H9FE>>, <<\HA01, \HA02>>, <<\HA3C, \HA3C>>,
     <<\HA41, \HA42>>, <<\HA47, \HA48>>, <<\HA4B, \HA4D>>,
     <<\HA51, \HA51>>, <<\HA70, \HA71>>, <<\HA75, \HA75>>,
     <<\HA81, \HA82>>, <<\HABC, \HABC>>, <<\HAC1, \HAC5>>,
     <<\HAC7, \HAC8>>, <<\HACD, \HACD>>, <<\HAE2, \HAE3>>,
     <<\HAFA, \HAFF>>, <<\HB01, \HB01>>, <<\HB3C, \HB3C>>,
     <<\HB3F, \HB3F>>, <<\HB41, \HB44>>, <<\HB4D, \HB4D>>,
     <<\HB55, \HB56>>, <<\HB62, \HB63>>, <<\HB82, \HB82>>,
     <<\HBC0, \HBC0>>, <<\HBCD, \HBCD>>, <<\HC00, \HC00>>,
     <<\HC04, \HC04>>, <<\HC3C, \HC3C>>, <<\HC3E, \HC40>>,
     <<\HC46, \HC48>>, <<\HC4A, \HC4D>>, <<\HC55, \HC56>>,
     <<\HC62, \HC63>>, <<\HC81, \HC81>>, <<\HCBC, \HCBC>>,
     <<\HCBF, \HCBF>>, <<\HCC6, \HCC6>>, <<\HCCC, \HCCD>>,
     <<\HCE2, \HCE3>>, <<\HD00, \HD01>>, <<\HD3B, \HD3C>>,
     <<\HD41, \HD44>>, <<\HD4D, \HD4D>>, <<\HD62, \HD63>>,
     <<\HD81, \HD81>>, <<\HDCA, \HDCA>>, <<\HDD2, \HDD4>>,
     <<\HDD6, \HDD6>>, <<\HE31, \HE31>>, <<\HE34, \HE3A>>,
     <<\HE46, \HE4E>>, <<\HEB1, \HEB1>>, <<\HEB4, \HEBC>>,
     <<\HEC6, \HEC6>>, <<\HEC8, \HECD>>, <<\HF18, \HF19>>,
     <<\HF35, \HF35>>, <<\HF37, \HF37>>, <<\HF39, \HF39>>,
     <<\HF71, \HF7E>>, <<\HF80, \HF84>>, <<\HF86, \HF87>>,
     <<\HF8D, \HF97>>, <<\HF99, \HFBC>>, <<\HFC6, \HFC6>>,
     <<\H102D, \H1030>>, <<\H1032, \H1037>>, <<\H1039, \H103A>>,
     <<\H103D, \H103E>>, <<\H1058, \H1059>>, <<\H105E, \H1060>>,
     <<\H1071, \H1074>>, <<\H1082, \H1082>>, <<\H1085, \H1086>>,
     <<\H108D, \H108D>>, <<\H109D, \H109D>>, <<\H10FC, \H10FC>>,
     <<\H135D, \H135F>>, <<\H1712, \H1714>>, <<\H1732, \H1733>>,
     <<\H1752, \H1753>>, <<\H1772, \H1773>>, <<\H17B4, \H17B5>>,
     <<\H17B7, \H17BD>>, <<\H17C6, \H17C6>>, <<\H17C9, \H17D3>>,
     <<\H17D7, \H17D7>>, <<\H17DD, \H17DD>>, <<\H180B, \H180F>>,
     <<\H1843, \H1843>>, <<\H1885, \H1886>>, <<\H18A9, \H18A9>>,
     <<\H1920, \H1922>>, <<\H1927, \H1928>>, <<\H1932, \H1932>>,
     <<\H1939, \H193B>>, <<\H1A17, \H1A18>>, <<\H1A1B, \H1A1B>>,
     <<\H1A56, \H1A56>>, <<\H1A58, \H1A5E>>, <<\H1A60, \H1A60>>,
     <<\H1A62, \H1A62>>, <<\H1A65, \H1A6C>>, <<\H1A73, \H1A7C>>,
     <<\H1A7F, \H1A7F>>, <<\H1AA7, \H1AA7>>, <<\H1AB0, \H1ACE>>,
     <<\H1B00, \H1B03>>, <<\H1B34, \H1B34>>, <<\H1B36, \H1B3A>>,
     <<\H1B3C, \H1B3C>>, <<\H1B42, \H1B42>>, <<\H1B6B, \H1B73>>,
     <<\H1B80, \H1B81>>, <<\H1BA2, \H1BA5>>, <<\H1BA8, \H1BA9>>,
     <<\H1BAB, \H1BAD>>, <<\H1BE6, \H1BE6>>, <<\H1BE8, \H1BE9>>,
     <<\H1BED, \H1BED>>, <<\H1BEF, \H1BF1>>, <<\H1C2C, \H1C33>>,
     <<\H1C36, \H1C37>>, <<\H1C78, \H1C7D>>, <<\H1CD0, \H1CD2>>,
     <<\H1CD4, \H1CE0>>, <<\H1CE2, \H1CE8>>, <<\H1CED, \H1CED>>,
     <<\H1CF4, \H1CF4>>, <<\H1CF8, \H1CF9>>, <<\H1D2C, \H1D6A>>,
     <<\H1D78, \H1D78>>, <<\H1D9B, \H1DFF>>, <<\H1FBD, \H1FBD>>,
     <<\H1FBF, \H1FC1>>, <<\H1FCD, \H1FCF>>, <<\H1FDD, \H1FDF>>,
     <<\H1FED, \H1FEF>>, <<\H1FFD, \H1FFE>>, <<\H200B, \H200F>>,
     <<\H2018, \H2019>>, <<\H2024, \H2024>>, <<\H2027, \H2027>>,
     <<\H202A, \H202E>>, <<\H2060, \H2064>>, <<\H2066, \H206F>>,
     <<\H2071, \H2071>>, <<\H207F, \H207F>>, <<\H2090, \H209C>>,
     <<\H20D0, \H20F0>>, <<\H2C7C, \H2C7D>>, <<\H2CEF, \H2CF1>>,
     <<\H2D6F, \H2D6F>>, <<\H2D7F, \H2D7F>>, <<\H2DE0, \H2DFF>>,
     <<\H2E2F, \H2E2F>>, <<\H3005, \H3005>>, <<\H302A, \H302D>>,
     <<\H3031, \H3035>>, <<\H303B, \H303B>>, <<\H3099, \H309E>>,
     <<\H30FC, \H30FE>>, <<\HA015, \HA015>>, <<\HA4F8, \HA4FD>>,
     <<\HA60C, \HA60C>>, <<\HA66F, \HA672>>, <<\HA674, \HA67D>>,
     <<\HA67F, \HA67F>>, <<\HA69C, \HA69F>>, <<\HA6F0, \HA6F1>>,
     <<\HA700, \HA721>>, <<\HA770, \HA770>>, <<\HA788, \HA78A>>,
     <<\HA7F2, \HA7F4>>, <<\HA7F8, \HA7F9>>, <<\HA802, \HA802>>,
     <<\HA806, \HA806>>, <<\HA80B, \HA80B>>, <<\HA825, \HA826>>,
     <<\HA82C, \HA82C>>, <<\HA8C4, \HA8C5>>, <<\HA8E0, \HA8F1>>,
     <<\HA8FF, \HA8FF>>, <<\HA926, \HA92D>>, <<\HA947, \HA951>>,
     <<\HA980, \HA982>>, <<\HA9B3, \HA9B3>>, <<\HA9B6, \HA9B9>>,
     <<\HA9BC, \HA9BD>>, <<\HA9CF, \HA9CF>>, <<\HA9E5, \HA9E6>>,
     <<\HAA29, \HAA2E>>, <<\HAA31, \HAA32>>, <<\HAA35, \HAA36>>,
     <<\HAA43, \HAA43>>, <<\HAA4C, \HAA4C>>, <<\HAA70, \HAA70>>,
     <<\HAA7C, \HAA7C>>, <<\HAAB0, \HAAB0>>, <<\HAAB2, \HAAB4>>,
     <<\HAAB7, \HAAB8>>, <<\HAABE, \HAABF>>, <<\HAAC1, \HAAC1>>,
     <<\HAADD, \HAADD>>, <<\HAAEC, \HAAED>>, <<\HAAF3, \HAAF4>>,
     <<\HAAF6, \HAAF6>>, <<\HAB5B, \HAB5F>>, <<\HAB69, \HAB6B>>,
     <<\HABE5, \HABE5>>, <<\HABE8, \HABE8>>, <<\HABED, \HABED>>,
     <<\HFB1E, \HFB1E>>, <<\HFBB2, \HFBC2>>, <<\HFE00, \HFE0F>>,
     <<\HFE13, \HFE13>>, <<\HFE20, \HFE2F>>, <<\HFE52, \HFE52>>,
     <<\HFE55, \HFE55>>, <<\HFEFF, \HFEFF>>, <<\HFF07, \HFF07>>,
     <<\HFF0E, \HFF0E>>, <<\HFF1A, \HFF1A>>, <<\HFF3E, \HFF3E>>,
     <<\HFF40, \HFF40>>, <<\HFF70, \HFF70>>, <<\HFF9E, \HFF9F>>,
     <<\HFFE3, \HFFE3>>, <<\HFFF9, \HFFFB>>, <<\H101FD, \H101FD>>,
     <<\H102E0, \H102E0>>, <<\H10376, \H1037A>>, <<\H10780, \H10785>>,
     <<\H10787, \H107B0>>, <<\H107B2, \H107BA>>, <<\H10A01, \H10A03>>,
     <<\H10A05, \H10A06>>, <<\H10A0C, \H10A0F>>, <<\H10A38, \H10A3A>>,
     <<\H10A3F, \H10A3F>>, <<\H10AE5, \H10AE6>>, <<\H10D24, \H10D27>>,
     <<\H10EAB, \H10EAC>>, <<\H10F46, \H10F50>>, <<\H10F82, \H10F85>>,
     <<\H11001, \H11001>>, <<\H11038, \H11046>>, <<\H11070, \H11070>>,
     <<\H11073, \H11074>>, <<\H1107F, \H11081>>, <<\H110B3, \H110B6>>,
     <<\H110B9, \H110BA>>, <<\H110BD, \H110BD>>, <<\H110C2, \H110C2>>,
     <<\H110CD, \H110CD>>, <<\H11100, \H11102>>, <<\H11127, \H1112B>>,
     <<\H1112D, \H11134>>, <<\H11173, \H11173>>, <<\H11180, \H11181>>,
     <<\H111B6, \H111BE>>, <<\H111C9, \H111CC>>, <<\H111CF, \H111CF>>,
     <<\H1122F, \H11231>>, <<\H11234, \H11234>>, <<\H11236, \H11237>>,
     <<\H1123E, \H1123E>>, <<\H112DF, \H112DF>>, <<\H112E3, \H112EA>>,
     <<\H11300, \H11301>>, <<\H1133B, \H1133C>>, <<\H11340, \H11340>>,
     <<\H11366, \H1136C>>, <<\H11370, \H11374>>, <<\H11438, \H1143F>>,
     <<\H11442, \H11444>>, <<\H11446, \H11446>>, <<\H1145E, \H1145E>>,
     <<\H114B3, \H114B8>>, <<\H114BA, \H114BA>>, <<\H114BF, \H114C0>>,
     <<\H114C2, \H114C3>>, <<\H115B2, \H115B5>>, <<\H115BC, \H115BD>>,
     <<\H115BF, \H115C0>>, <<\H115DC, \H115DD>>, <<\H11633, \H1163A>>,
     <<\H1163D, \H1163D>>, <<\H1163F, \H11640>>, <<\H116AB, \H116AB>>,
     <<\H116AD, \H116AD>>, <<\H116B0, \H116B5>>, <<\H116B7, \H116B7>>,
     <<\H1171D, \H1171F>>, <<\H11722, \H11725>>, <<\H11727, \H1172B>>,
     <<\H1182F, \H11837>>, <<\H11839, \H1183A>>, <<\H1193B, \H1193C>>,
     <<\H1193E, \H1193E>>, <<\H11943, \H11943>>, <<\H119D4, \H119D7>>,
     <<\H119DA, \H119DB>>, <<\H119E0, \H119E0>>, <<\H11A01, \H11A0A>>,
     <<\H11A33, \H11A38>>, <<\H11A3B, \H11A3E>>, <<\H11A47, \H11A47>>,
     <<\H11A51, \H11A56>>, <<\H11A59, \H11A5B>>, <<\H11A8A, \H11A96>>,
     <<\H11A98, \H11A99>>, <<\H11C30, \H11C36>>, <<\H11C38, \H11C3D>>,
     <<\H11C3F, \H11C3F>>, <<\H11C92, \H11CA7>>, <<\H11CAA, \H11CB0>>,
     <<\H11CB2, \H11CB3>>, <<\H11CB5, \H11CB6>>, <<\H11D31, \H11D36>>,
     <<\H11D3A, \H11D3A>>, <<\H11D3C, \H11D3D>>, <<\H11D3F, \H11D45>>,
     <<\H11D47, \H11D47>>, <<\H11D90, \H11D91>>, <<\H11D95, \H11D95>>,
     <<\H11D97, \H11D97>>, <<\H11EF3, \H11EF4>>, <<\H13430, \H13438>>,
     <<\H16AF0, \H16AF4>>, <<\H16B30, \H16B36>>, <<\H16B40, \H16B43>>,
     <<\H16F4F, \H16F4F>>, <<\H16F8F, \H16F9F>>, <<\H16FE0, \H16FE1>>,
     <<\H16FE3, \H16FE4>>, <<\H1AFF0, \H1AFF3>>, <<\H1AFF5, \H1AFFB>>,
     <<\H1AFFD, \H1AFFE>>, <<\H1BC9D, \H1BC9E>>, <<\H1BCA0, \H1BCA3>>,
     <<\H1CF00, \H1CF2D>>, <<\H1CF30, \H1CF46>>, <<\H1D167, \H1D169>>,
     <<\H1D173, \H1D182>>, <<\H1D185, \H1D18B>>, <<\H1D1AA, \H1D1AD>>,
     <<\H1D242, \H1D244>>, <<\H1DA00, \H1DA36>>, <<\H1DA3B, \H1DA6C>>,
     <<\H1DA75, \H1DA75>>, <<\H1DA84, \H1DA84>>, <<\H1DA9B, \H1DA9F>>,
     <<\H1DAA1, \H1DAAF>>, <<\H1E000, \H1E006>>, <<\H1E008, \H1E018>>,
     <<\H1E01B, \H1E021>>, <<\H1E023, \H1E024>>, <<\H1E026, \H1E02A>>,
     <<\H1E130, \H1E13D>>, <<\H1E2AE, \H1E2AE>>, <<\H1E2EC, \H1E2EF>>,
     <<\H1E8D0, \H1E8D6>>, <<\H1E944, \H1E94B>>, <<\H1F3FB, \H1F3FF>>,
     <<\HE0001, \HE0001>>, <<\HE0020, \HE007F>>, <<\HE0100, \HE01EF>>})

\* the cased characters that are not case-ignorable
Cased ==
    {UpperCase[i] : i \in 1..Len(UpperCase)} \cup {LowerCase[i] : i \in 1..Len(LowerCase)}
    \cup {"ª", "µ", "º", "ß", "ÿ"}
    \cup Chars(
     {<<\H100, \H1BA>>, <<\H1BC, \H1BF>>, <<\H1C4, \H293>>,
     <<\H295, \H2AF>>, <<\H370, \H373>>, <<\H376, \H377>>,
     <<\H37B, \H37D>>, <<\H37F, \H37F>>, <<\H386, \H386>>,
     <<\H388, \H38A>>, <<\H38C, \H38C>>, <<\H38E, \H3A1>>,
     <<\H3A3, \H3F5>>, <<\H3F7, \H481>>, <<\H48A, \H52F>>,
     <<\H531, \H556>>, <<\H560, \H588>>, <<\H10A0, \H10C5>>,
     <<\H10C7, \H10C7>>, <<\H10CD, \H10CD>>, <<\H10D0, \H10FA>>,
     <<\H10FD, \H10FF>>, <<\H13A0, \H13F5>>, <<\H13F8, \H13FD>>,
     <<\H1C80, \H1C88>>, <<\H1C90, \H1CBA>>, <<\H1CBD, \H1CBF>>,
     <<\H1D00, \H1D2B>>, <<\H1D6B, \H1D77>>, <<\H1D79, \H1D9A>>,
     <<\H1E00, \H1F15>>, <<\H1F18, \H1F1D>>, <<\H1F20, \H1F45>>,
     <<\H1F48, \H1F4D>>, <<\H1F50, \H1F57>>, <<\H1F59, \H1F59>>,
     <<\H1F5B, \H1F5B>>, <<\H1F5D, \H1F5D>>, <<\H1F5F, \H1F7D>>,
     <<\H1F80, \H1FB4>>, <<\H1FB6, \H1FBC>>, <<\H1FBE, \H1FBE>>,
     <<\H1FC2, \H1FC4>>, <<\H1FC6, \H1FCC>>, <<\H1FD0, \H1FD3>>,
     <<\H1FD6, \H1FDB>>, <<\H1FE0, \H1FEC>>, <<\H1FF2, \H1FF4>>,
     <<\H1FF6, \H1FFC>>, <<\H2102, \H2102>>, <<\H2107, \H2107>>,
     <<\H210A, \H2113>>, <<\H2115, \H2115>>, <<\H2119, \H211D>>,
     <<\H2124, \H2124>>, <<\H2126, \H2126>>, <<\H2128, \H2128>>,
     <<\H212A, \H212D>>, <<\H212F, \H2134>>, <<\H2139, \H2139>>,
     <<\H213C, \H213F>>, <<\H2145, \H2149>>, <<\H214E, \H214E>>,
     <<\H2160, \H217F>>, <<\H2183, \H2184>>, <<\H24B6, \H24E9>>,
     <<\H2C00, \H2C7B>>, <<\H2C7E, \H2CE4>>, <<\H2CEB, \H2CEE>>,
     <<\H2CF2, \H2CF3>>, <<\H2D00, \H2D25>>, <<\H2D27, \H2D27>>,
     <<\H2D2D, \H2D2D>>, <<\HA640, \HA66D>>, <<\HA680, \HA69B>>,
     <<\HA722, \HA76F>>, <<\HA771, \HA787>>, <<\HA78B, \HA78E>>,
     <<\HA790, \HA7CA>>, <<\HA7D0, \HA7D1>>, <<\HA7D3, \HA7D3>>,
     <<\HA7D5, \HA7D9>>, <<\HA7F5, \HA7F6>>, <<\HA7FA, \HA7FA>>,
     <<\HAB30, \HAB5A>>, <<\HAB60, \HAB68>>, <<\HAB70, \HABBF>>,
     <<\HFB00, \HFB06>>, <<\HFB13, \HFB17>>, <<\HFF21, \HFF3A>>,
     <<\HFF41, \HFF5A>>, <<\H10400, \H1044F>>, <<\H104B0, \H104D3>>,
     <<\H104D8, \H104FB>>, <<\H10570, \H1057A>>, <<\H1057C, \H1058A>>,
     <<\H1058C, \H10592>>, <<\H10594, \H10595>>, <<\H10597, \H105A1>>,
     <<\H105A3, \H105B1>>, <<\H105B3, \H105B9>>, <<\H105BB, \H105BC>>,
     <<\H10C80, \H10CB2>>, <<\H10CC0, \H10CF2>>, <<\H118A0, \H118DF>>,
     <<\H16E40, \H16E7F>>, <<\H1D400, \H1D454>>, <<\H1D456, \H1D49C>>,
     <<\H1D49E, \H1D49F>>, <<\H1D4A2, \H1D4A2>>, <<\H1D4A5, \H1D4A6>>,
     <<\H1D4A9, \H1D4AC>>, <<\H1D4AE, \H1D4B9>>, <<\H1D4BB, \H1D4BB>>,
     <<\H1D4BD, \H1D4C3>>, <<\H1D4C5, \H1D505>>, <<\H1D507, \H1D50A>>,
     <<\H1D50D, \H1D514>>, <<\H1D516, \H1D51C>>, <<\H1D51E, \H1D539>>,
     <<\H1D53B, \H1D53E>>, <<\H1D540, \H1D544>>, <<\H1D546, \H1D546>>,
     <<\H1D54A, \H1D550>>, <<\H1D552, \H1D6A5>>, <<\H1D6A8, \H1D6C0>>,
     <<\H1D6C2, \H1D6DA>>, <<\H1D6DC, \H1D6FA>>, <<\H1D6FC, \H1D714>>,
     <<\H1D716, \H1D734>>, <<\H1D736, \H1D74E>>, <<\H1D750, \H1D76E>>,
     <<\H1D770, \H1D788>>, <<\H1D78A, \H1D7A8>>, <<\H1D7AA, \H1D7C2>>,
     <<\H1D7C4, \H1D7CB>>, <<\H1DF00, \H1DF09>>, <<\H1DF0B, \H1DF1E>>,
     <<\H1E900, \H1E943>>, <<\H1F130, \H1F149>>, <<\H1F150, \H1F169>>,
     <<\H1F170, \H1F189>>})

\* a capital sigma (U+03A3) ends a word: case-ignorable characters passed
\* over, a cased character comes before it and none comes after it
final_sigma(s, before, after) ==
    /\ before # {}
    /\ s[SetMax(before)] \in Cased
    /\ after = {} \/ s[SetMin(after)] \notin Cased

RECURSIVE Concat(_)
Concat(ss) == IF ss = <<>> THEN <<>> ELSE Head(ss) \o Concat(Tail(ss))

\* str.lower(): character by character, but for the capital sigma, whose
\* lower case at the end of a word is the final sigma (U+03C2)
str_lower(s) ==
    Concat([i \in 1..Len(s) |->
              IF s[i] = "U+03A3"
                 /\ final_sigma(s, {j \in 1..(i - 1) : s[j] \notin CaseIgnorable},
                                {j \in (i + 1)..Len(s) : s[j] \notin CaseIgnorable})
              THEN <<"U+03C2">>
              ELSE lower_char(s[i])])

\* the value of a character as a digit (bases up to 16): the ASCII digits
\* and letters, and every other decimal digit
DigitValue ==
    [c \in {"0","1","2","3","4","5","6","7","8","9",
            "a","b","c","d","e","f","A","B","C","D","E","F"}
           \cup Chars({<<z, z + 9>> : z \in DigitZeros}) |->
        CASE c = "0" -> 0 [] c = "1" -> 1 [] c = "2" -> 2 [] c = "3" -> 3
          [] c = "4" -> 4 [] c = "5" -> 5 [] c = "6" -> 6 [] c = "7" -> 7
          [] c = "8" -> 8 [] c = "9" -> 9
          [] c \in {"a","A"} -> 10 [] c \in {"b","B"} -> 11
          [] c \in {"c","C"} -> 12 [] c \in {"d","D"} -> 13
          [] c \in {"e","E"} -> 14 [] c \in {"f","F"} -> 15
          [] OTHER -> CHOOSE k \in 0..9 : \E z \in DigitZeros : c = Char(z + k)]

IsDigit(c, base) == c \in DOMAIN DigitValue /\ DigitValue[c] < base

RECURSIVE DigitsValue(_, _)
\* the number a run of digits and underscores denotes; zeros and underscores
\* alone, however many, denote zero
DigitsValue(s, base) ==
    IF \A i \in 1..Len(s) : s[i] = "_" \/ DigitValue[s[i]] = 0 THEN 0
    ELSE IF s[Len(s)] = "_" THEN DigitsValue(SubSeq(s, 1, Len(s) - 1), base)
    ELSE DigitsValue(SubSeq(s, 1, Len(s) - 1), base) * base + DigitValue[s[Len(s)]]

\* sys.get_int_max_str_digits(): the most digits int() reads in a base that
\* is no power of two
int_max_str_digits == 4300

\* int(): the digits after sign and prefix: at least one, single underscores
\* only between digits, and in base 10 no more digits than the limit;
\* anything else is a ValueError
IntDigits(v, negative, base) ==
    IF /\ Len(v) >= 1
       /\ v[1] # "_"
       /\ v[Len(v)] # "_"
       /\ \A i \in 1..Len(v) : v[i] = "_" \/ IsDigit(v[i], base)
       /\ \A i \in 1..(Len(v) - 1) : ~(v[i] = "_" /\ v[i + 1] = "_")
       /\ \/ base \in {2, 4, 8, 16, 32}
          \/ Cardinality({i \in 1..Len(v) : v[i] # "_"}) <= int_max_str_digits
    THEN [ok |-> TRUE,
          val |-> IF negative THEN 0 - DigitsValue(v, base) ELSE DigitsValue(v, base)]
    ELSE [ok |-> FALSE, val |-> 0]

\* int(): one underscore may follow a base prefix
IntAfterPrefix(v, prefixed, negative, base) ==
    IntDigits(IF prefixed /\ Len(v) >= 1 /\ v[1] = "_" THEN Tail(v) ELSE v,
              negative, base)

HasHexPrefix(u, base) ==
    /\ base = 16
    /\ Len(u) >= 2
    /\ IsDigit(u[1], 10) /\ DigitValue[u[1]] = 0
    /\ u[2] \in {"x", "X"}

\* int(): base 16 accepts a 0x prefix
IntUnsigned(u, negative, base) ==
    IntAfterPrefix(IF HasHexPrefix(u, base) THEN SubSeq(u, 3, Len(u)) ELSE u,
                   HasHexPrefix(u, base), negative, base)

IsSigned(t) == Len(t) >= 1 /\ t[1] \in {"+", "-"}

\* int(): an optional sign
IntStripped(t, base) ==
    IntUnsigned(IF IsSigned(t) THEN Tail(t) ELSE t, IsSigned(t) /\ t[1] = "-", base)

\* int(text, base): surrounding whitespace is ignored
py_int(text, base) ==
    IntStripped(Between(text, {i \in 1..Len(text) : text[i] \notin IntWhitespace}), base)

(***************************************************************************)
(* parse_color                                                             *)
(***************************************************************************)
Tuple(v) == [kind |-> "tuple", value |-> v]
ValueError == [kind |-> "ValueError", value |-> <<>>]
ArgumentTypeError == [kind |-> "ArgumentTypeError", value |-> <<>>]
Pending == [kind |-> "pending", value |-> <<>>]

\* the alpha channel appended to a three-channel colour
DefaultAlpha == 255

\* the tuple of the parsed values, or the ValueError of the first int() to fail
TupleOf(parsed) ==
    IF \E k \in 1..Len(parsed) : ~parsed[k].ok THEN ValueError
    ELSE Tuple([k \in 1..Len(parsed) |-> parsed[k].val])

\* tuple(int(color_string[i:i+2], 16) for i in offsets), offsets 0-based
HexChannels(body, offsets) ==
    TupleOf([k \in 1..Len(offsets) |->
                py_int(SubSeq(body, offsets[k] + 1, offsets[k] + 2), 16)])

IntsOf(pieces) == [k \in 1..Len(pieces) |-> py_int(str_strip(pieces[k]), 10)]

\* [int(x.strip()) for x in color_string.split(',')]
CommaValues(s) == TupleOf(IntsOf(str_split(s, ",")))

\* + (255,)
WithAlpha(r) ==
    IF r.kind = "tuple" THEN Tuple(r.value \o <<DefaultAlpha>>) ELSE r

\* if len(values) == 3: ... + (255,)  elif len(values) == 4: ...
CommaColor(values) ==
    IF values.kind # "tuple" THEN values
    ELSE IF Len(values.value) = 3 THEN WithAlpha(values)
    ELSE values

parse_color(s) ==
    IF startswith(s, <<"#">>)
    THEN IF Len(Tail(s)) = 6 THEN WithAlpha(HexChannels(Tail(s), <<0, 2, 4>>))
         ELSE IF Len(Tail(s)) = 8 THEN HexChannels(Tail(s), <<0, 2, 4, 6>>)
         ELSE ArgumentTypeError
    ELSE IF str_count(s, ",") = 2 \/ str_count(s, ",") = 3
    THEN CommaColor(CommaValues(s))
    ELSE ArgumentTypeError

(***************************************************************************)
(* The draw origin of add_watermark_to_image.                              *)
(***************************************************************************)
\* the positions dictionary
positions(w, h, tw, th) ==
    [p \in {"top-left", "top-center", "top-right", "middle-left", "center",
            "middle-right", "bottom-left", "bottom-center", "bottom-right"} |->
        CASE p = "top-left" -> <<10, 10>>
          [] p = "top-center" -> <<(w - tw) \div 2, 10>>
          [] p = "top-right" -> <<w - tw - 10, 10>>
          [] p = "middle-left" -> <<10, (h - th) \div 2>>
          [] p = "center" -> <<(w - tw) \div 2, (h - th) \div 2>>
          [] p = "middle-right" -> <<w - tw - 10, (h - th) \div 2>>
          [] p = "bottom-left" -> <<10, h - th - 10>>
          [] p = "bottom-center" -> <<(w - tw) \div 2, h - th - 10>>
          [] p = "bottom-right" -> <<w - tw - 10, h - th - 10>>]

\* dict.get(key, default)
dict_get(d, key, default) == IF key \in DOMAIN d THEN d[key] ELSE default

\* a plausible slip: an unknown position falls back to the first entry
draw_origin_first_entry(w, h, tw, th, pos) ==
    dict_get(positions(w, h, tw, th), pos, positions(w, h, tw, th)["top-left"])

\* x, y = positions.get(position, positions['bottom-right'])
draw_origin(w, h, tw, th, pos) ==
    dict_get(positions(w, h, tw, th), pos, positions(w, h, tw, th)["bottom-right"])

(***************************************************************************)
(* Paths and the file system.  The file system maps the sequence of names  *)
(* that leads from the root to an entry to that entry; a path string is    *)
(* resolved by walking its names from the root or the working directory.   *)
(* There are no symbolic links.                                            *)
(***************************************************************************)
IsPrefix(a, b) == Len(a) <= Len(b) /\ SubSeq(b, 1, Len(a)) = a

LastOf(p, at) == IF at = {} THEN p ELSE SubSeq(p, SetMax(at) + 1, Len(p))

\* os.path.basename
os_path_basename(p) == LastOf(p, {i \in 1..Len(p) : p[i] = "/"})

\* os.path.join of two parts
os_path_join(a, b) ==
    IF startswith(b, <<"/">>) THEN b
    ELSE IF a = <<>> \/ a[Len(a)] = "/" THEN a \o b
    ELSE a \o <<"/">> \o b

\* str.rstrip('/')
rstrip_sep(h) == SubSeq(h, 1, SetMax({0} \cup {i \in 1..Len(h) : h[i] # "/"}))

SplitAtSep(p, i) ==
    [head |-> IF \A k \in 1..i : p[k] = "/" THEN SubSeq(p, 1, i)
              ELSE rstrip_sep(SubSeq(p, 1, i)),
     tail |-> SubSeq(p, i + 1, Len(p))]

\* os.path.split
os_path_split(p) == SplitAtSep(p, SetMax({0} \cup {i \in 1..Len(p) : p[i] = "/"}))

\* the working directory of the process
cwd == << <<"w">> >>

NonEmpty(c) == c # <<>>

\* the names of a path string; empty names (repeated separators) drop out
Names(p) == SelectSeq(str_split(p, "/"), NonEmpty)

\* a trailing separator asks for a directory, as a final "." does
LookupNames(p) ==
    IF Len(p) >= 1 /\ p[Len(p)] = "/" THEN Names(p) \o << <<".">> >> ELSE Names(p)

Parent(r) == SubSeq(r, 1, Len(r) - 1)

NoImage ==
    [opens |-> FALSE, exif_state |-> "none", exif |-> <<>>, loads |-> FALSE,
     size |-> <<0, 0>>, mode |-> "", marks |-> <<>>]
DirEntry == [type |-> "dir", image |-> NoImage]
FileEntry(img) == [type |-> "file", image |-> img]
NoEntry == [type |-> "absent", image |-> NoImage]

\* what is at a location; the working directory and its ancestors exist
EntryAt(fsys, r) ==
    IF r \in DOMAIN fsys THEN fsys[r]
    ELSE IF IsPrefix(r, cwd) THEN DirEntry
    ELSE NoEntry

IsDirAt(fsys, r) == EntryAt(fsys, r).type = "dir"

\* where a walk has got to, or the error that stopped it
Located(r) == [state |-> "ok", path |-> r]
Unreached(err, r) == [state |-> err, path |-> r]

\* one name further from r: r must be a directory to be walked through
Step(fsys, r, name) ==
    IF EntryAt(fsys, r).type = "absent" THEN Unreached("FileNotFoundError", r)
    ELSE IF EntryAt(fsys, r).type # "dir" THEN Unreached("NotADirectoryError", r)
    ELSE IF name = <<".">> THEN Located(r)
    ELSE IF name = <<".", ".">> THEN Located(Parent(r))
    ELSE Located(Append(r, name))

RECURSIVE Walk(_, _, _)
Walk(fsys, at, names) ==
    IF names = <<>> \/ at.state # "ok" THEN at
    ELSE Walk(fsys, Step(fsys, at.path, Head(names)), Tail(names))

WalkFrom(fsys, p, names) ==
    IF p = <<>> THEN Unreached("FileNotFoundError", <<>>)
    ELSE Walk(fsys, Located(IF startswith(p, <<"/">>) THEN <<>> ELSE cwd), names)

\* the location a path string names, for reading or writing what is there
Resolve(fsys, p) == WalkFrom(fsys, p, LookupNames(p))

\* the location a path string names, for creating a directory there
ResolveNew(fsys, p) == WalkFrom(fsys, p, Names(p))

EntryFor(fsys, loc) == IF loc.state = "ok" THEN EntryAt(fsys, loc.path) ELSE NoEntry

\* os.path.isdir
os_path_isdir(fsys, p) == EntryFor(fsys, Resolve(fsys, p)).type = "dir"

\* os.path.exists
os_path_exists(fsys, p) == EntryFor(fsys, Resolve(fsys, p)).type # "absent"

\* the names in a directory: its entries, and for an ancestor of the working
\* directory the next name on the way there
ChildrenOf(fsys, r) ==
    {q[Len(q)] : q \in {x \in DOMAIN fsys : Len(x) = Len(r) + 1 /\ Parent(x) = r}}
    \cup {cwd[k] : k \in {j \in 1..Len(cwd) : j = Len(r) + 1 /\ IsPrefix(r, cwd)}}

\* os.listdir
os_listdir(fsys, p) == ChildrenOf(fsys, Resolve(fsys, p).path)

\* the outcome of an operation that writes: the error raised, if any, and the
\* file system it leaves
FsResult(err, fsys) == [error |-> err, fs |-> fsys]

WithEntry(fsys, r, e) ==
    [q \in DOMAIN fsys \cup {r} |-> IF q = r THEN e ELSE fsys[q]]

MkdirAt(fsys, loc) ==
    IF loc.state # "ok" THEN FsResult(loc.state, fsys)
    ELSE IF EntryAt(fsys, loc.path).type # "absent" THEN FsResult("FileExistsError", fsys)
    ELSE FsResult("none", WithEntry(fsys, loc.path, DirEntry))

\* os.mkdir
os_mkdir(fsys, p) == MkdirAt(fsys, ResolveNew(fsys, p))

\* try: mkdir(name)  except OSError: if not exist_ok or not path.isdir(name): raise
MakeLeaf(fsys, name, ok_if_exists, made) ==
    IF made.error # "none" /\ ok_if_exists /\ os_path_isdir(fsys, name)
    THEN FsResult("none", fsys)
    ELSE made

RECURSIVE os_makedirs(_, _, _)
\* the head has been made: a FileExistsError of that is passed over, and a
\* tail "." needs no directory of its own
AfterHead(name, tail, ok_if_exists, head_made) ==
    IF head_made.error \notin {"none", "FileExistsError"} THEN head_made
    ELSE IF tail = <<".">> THEN FsResult("none", head_made.fs)
    ELSE MakeLeaf(head_made.fs, name, ok_if_exists, os_mkdir(head_made.fs, name))

MakeDirsSplit(fsys, name, parts, ok_if_exists) ==
    IF parts.head # <<>> /\ parts.tail # <<>> /\ ~os_path_exists(fsys, parts.head)
    THEN AfterHead(name, parts.tail, ok_if_exists,
                   os_makedirs(fsys, parts.head, ok_if_exists))
    ELSE MakeLeaf(fsys, name, ok_if_exists, os_mkdir(fsys, name))

\* head, tail = path.split(name); if not tail: head, tail = path.split(head)
MakeDirsParts(parts) == IF parts.tail = <<>> THEN os_path_split(parts.head) ELSE parts

\* os.makedirs(name, exist_ok=ok_if_exists)
os_makedirs(fsys, name, ok_if_exists) ==
    MakeDirsSplit(fsys, name, MakeDirsParts(os_path_split(name)), ok_if_exists)

\* a plausible slip: exist_ok left at its default
exist_ok_default == FALSE

\* exist_ok=True
exist_ok == TRUE

supported_formats ==
    << <<".","j","p","g">>, <<".","j","p","e","g">>, <<".","p","n","g">>,
       <<".","t","i","f","f">>, <<".","b","m","p">> >>

\* filename.lower().endswith(supported_formats)
is_supported(filename) == endswith_any(str_lower(filename), supported_formats)

(***************************************************************************)
(* get_exif_datetime                                                       *)
(***************************************************************************)
DecimalDigits == <<"0","1","2","3","4","5","6","7","8","9">>

IsLeap(y) == (y % 4 = 0 /\ y % 100 # 0) \/ y % 400 = 0
DaysInMonth(y, m) ==
    IF m = 2 THEN (IF IsLeap(y) THEN 29 ELSE 28)
    ELSE IF m \in {4, 6, 9, 11} THEN 30 ELSE 31

NoDate == [ok |-> FALSE, date |-> <<0, 0, 0>>]

\* the values datetime accepts (MINYEAR..MAXYEAR, the calendar, the clock)
CheckedDate(Y, M, D, h, m, s) ==
    IF Y \in 1..9999 /\ M \in 1..12 /\ D \in 1..DaysInMonth(Y, M)
       /\ h <= 23 /\ m <= 59 /\ s <= 59
    THEN [ok |-> TRUE, date |-> <<Y, M, D>>]
    ELSE NoDate

\* "%Y:%m:%d %H:%M:%S" as strptime reads it: directives, literal characters,
\* and the blank, which stands for a run of whitespace
stamp_format == <<"%Y", ":", "%m", ":", "%d", " ", "%H", ":", "%M", ":", "%S">>

\* the ASCII digits from lo to hi: [lo-hi]
Digits(lo, hi) == {DecimalDigits[k + 1] : k \in lo..hi}

\* \d: every decimal digit
Decimals == {c \in DOMAIN DigitValue : DigitValue[c] < 10}

\* the regular expression of each directive: its alternatives in the order
\* they are tried, each a sequence of character classes
directive_patterns ==
    [item \in {"%Y", "%m", "%d", "%H", "%M", "%S"} |->
        CASE item = "%Y" -> << <<Decimals, Decimals, Decimals, Decimals>> >>
          [] item = "%m" -> << <<Digits(1, 1), Digits(0, 2)>>, <<Digits(0, 0), Digits(1, 9)>>, <<Digits(1, 9)>> >>
          [] item = "%d" -> << <<Digits(3, 3), Digits(0, 1)>>, <<Digits(1, 2), Decimals>>,
                               <<Digits(0, 0), Digits(1, 9)>>, <<Digits(1, 9)>>, <<{" "}, Digits(1, 9)>> >>
          [] item = "%H" -> << <<Digits(2, 2), Digits(0, 3)>>, <<Digits(0, 1), Decimals>>, <<Decimals>> >>
          [] item = "%M" -> << <<Digits(0, 5), Decimals>>, <<Decimals>> >>
          [] item = "%S" -> << <<Digits(6, 6), Digits(0, 1)>>, <<Digits(0, 5), Decimals>>, <<Decimals>> >>]

\* the characters from i on are in the classes of the alternative
MatchesAt(s, i, alternative) ==
    /\ i + Len(alternative) - 1 <= Len(s)
    /\ \A k \in 1..Len(alternative) : s[i + k - 1] \in alternative[k]

\* how many characters the first alternative that matches takes; 0: none
\* matches.  A later alternative cannot match where the first has and the
\* rest of the format has not: what follows a directive is no digit
FirstMatch(alternatives, hits) ==
    IF hits = {} THEN 0 ELSE Len(alternatives[SetMin(hits)])

\* the whitespace characters from i on: \s+
SpaceRun(s, i) ==
    SetMin({j \in i..(Len(s) + 1) : j = Len(s) + 1 \/ s[j] \notin Whitespace}) - i

\* how many characters at i the item of the format takes; 0: no match
DirectiveLen(s, i, item) ==
    IF item \in DOMAIN directive_patterns
    THEN FirstMatch(directive_patterns[item],
                    {k \in 1..Len(directive_patterns[item]) :
                        MatchesAt(s, i, directive_patterns[item][k])})
    ELSE IF item = " " THEN SpaceRun(s, i)
    ELSE IF i <= Len(s) /\ s[i] = item THEN 1 ELSE 0

RECURSIVE MatchFormat(_, _, _, _)
\* the item at the head of the format has taken n characters at i
MatchItem(s, i, items, found, n) ==
    IF n = 0 THEN NoDate
    ELSE MatchFormat(s, i + n, Tail(items),
                     IF Head(items) \in DOMAIN directive_patterns
                     THEN Append(found, py_int(SubSeq(s, i, i + n - 1), 10).val)
                     ELSE found)

\* the format matched from position i on; the whole string must be used up
MatchFormat(s, i, items, found) ==
    IF items = <<>>
    THEN IF i = Len(s) + 1
         THEN CheckedDate(found[1], found[2], found[3], found[4], found[5], found[6])
         ELSE NoDate
    ELSE MatchItem(s, i, items, found, DirectiveLen(s, i, Head(items)))

\* datetime.datetime.strptime(value, "%Y:%m:%d %H:%M:%S"): the date it
\* reads, or a failure (ValueError)
strptime(value) == MatchFormat(value, 1, stamp_format, <<>>)

RECURSIVE ZeroPad(_, _)
\* n in decimal, zero-padded to w digits
ZeroPad(n, w) ==
    IF w = 0 THEN <<>>
    ELSE ZeroPad(n \div 10, w - 1) \o <<DecimalDigits[(n % 10) + 1]>>

RECURSIVE Decimal(_)
\* n in decimal
Decimal(n) ==
    IF n < 10 THEN <<DecimalDigits[n + 1]>>
    ELSE Decimal(n \div 10) \o <<DecimalDigits[(n % 10) + 1]>>

\* dt.strftime("%Y-%m-%d"): the C library's %Y does not pad the year
strftime(date) ==
    Decimal(date[1]) \o <<"-">> \o ZeroPad(date[2], 2) \o <<"-">> \o ZeroPad(date[3], 2)

\* ("DateTime", "DateTimeOriginal", "DateTimeDigitized")
date_tags == {"DateTime", "DateTimeOriginal", "DateTimeDigitized"}

\* the absent result (None) and a date string
NoText == [ok |-> FALSE, text |-> <<>>]
Text(t) == [ok |-> TRUE, text |-> t]

\* return dt.strftime("%Y-%m-%d"), or the exception handler's None
FormattedDate(dt) == IF dt.ok THEN Text(strftime(dt.date)) ELSE NoText

\* the first date tag in the metadata decides
FirstDateTag(exif, hits) ==
    IF hits = {} THEN NoText ELSE FormattedDate(strptime(exif[SetMin(hits)].value))

\* the try block on an entry: Image.open, _getexif, the loop over the tags
ExifDateOf(e) ==
    IF e.type # "file" \/ ~e.image.opens \/ e.image.exif_state # "dict" THEN NoText
    ELSE FirstDateTag(e.image.exif,
                      {i \in 1..Len(e.image.exif) : e.image.exif[i].tag \in date_tags})

get_exif_datetime(fsys, image_path) ==
    ExifDateOf(EntryFor(fsys, Resolve(fsys, image_path)))

(***************************************************************************)
(* add_watermark_to_image and Image.save                                   *)
(***************************************************************************)
\* the font drawn with: the first of arial.ttf and DejaVuSans.ttf that the
\* machine has, at font_size, or else ImageFont.load_default(), whose size is
\* its own
load_font(files, fsize) ==
    IF "arial.ttf" \in files THEN [name |-> "arial.ttf", size |-> fsize]
    ELSE IF "DejaVuSans.ttf" \in files THEN [name |-> "DejaVuSans.ttf", size |-> fsize]
    ELSE [name |-> "default", size |-> 0]

\* text_width and text_height of the box draw.textbbox gives (left, top,
\* right, bottom)
text_bbox_size(bbox) == <<bbox[3] - bbox[1], bbox[4] - bbox[2]>>

\* a plausible slip: the extension compared without lower()
needs_rgb_case_sensitive(image_path) ==
    endswith_any(image_path, << <<".","j","p","g">>, <<".","j","p","e","g">> >>)

\* image_path.lower().endswith(('.jpg', '.jpeg'))
needs_rgb(image_path) ==
    endswith_any(str_lower(image_path), << <<".","j","p","g">>, <<".","j","p","e","g">> >>)

NoResult == [ok |-> FALSE, image |-> NoImage, composited_mode |-> ""]

\* the result returned: converted to RGB for a JPEG name
Returned(composited, to_rgb) ==
    [ok |-> TRUE,
     image |-> IF to_rgb THEN [composited EXCEPT !.mode = "RGB"] ELSE composited,
     composited_mode |-> composited.mode]

\* convert("RGBA"), the text drawn on the layer, alpha_composite
Composited(src, text, xy, color, font) ==
    [src EXCEPT !.mode = "RGBA", !.exif_state = "none", !.exif = <<>>,
                !.marks = src.marks \o <<[text |-> text, xy |-> xy, fill |-> color,
                                          font |-> font]>>]

\* the try block on an opened image, with the font loaded and the text's
\* size taken
Watermarked(src, font, size, image_path, text, color, pos) ==
    Returned(Composited(src, text,
                        draw_origin(src.size[1], src.size[2], size[1], size[2], pos),
                        color, font),
             needs_rgb(image_path))

\* Image.open and convert fail on what is no decodable image, draw.text on a
\* fill without channels
WatermarkEntry(e, files, boxes, image_path, text, fsize, color, pos) ==
    IF e.type # "file" \/ ~e.image.opens \/ ~e.image.loads \/ color = <<>>
    THEN NoResult
    ELSE Watermarked(e.image, load_font(files, fsize), text_bbox_size(boxes[text]),
                     image_path, text, color, pos)

\* files and boxes are the machine's: the fonts it has and what they measure
add_watermark_to_image(fsys, files, boxes, image_path, text, fsize, color, pos) ==
    WatermarkEntry(EntryFor(fsys, Resolve(fsys, image_path)), files, boxes,
                   image_path, text, fsize, color, pos)

\* os.path.splitext(name)[1] of a name: from its last dot on, unless only dots
\* come before that
ExtFrom(n, dots) ==
    IF dots = {} \/ \A i \in 1..(SetMax(dots) - 1) : n[i] = "."
    THEN <<>>
    ELSE SubSeq(n, SetMax(dots), Len(n))

splitext_ext(n) == ExtFrom(n, {i \in 1..Len(n) : n[i] = "."})

FormatOfExt(ext) ==
    IF ext \in {<<".","j","p","g">>, <<".","j","p","e","g">>} THEN "JPEG"
    ELSE IF ext = <<".","p","n","g">> THEN "PNG"
    ELSE IF ext = <<".","t","i","f","f">> THEN "TIFF"
    ELSE IF ext = <<".","b","m","p">> THEN "BMP"
    ELSE "unknown"

\* the format Image.save picks from the file name's extension, lower-cased
save_format(path) == FormatOfExt(str_lower(splitext_ext(os_path_basename(path))))

\* the file is opened for writing (and so emptied) before the encoder runs; an
\* encoder that fails leaves an existing file empty and removes a new one
SaveAt(fsys, loc, format, img) ==
    IF format = "unknown" THEN FsResult("ValueError", fsys)
    ELSE IF loc.state # "ok" THEN FsResult(loc.state, fsys)
    ELSE IF EntryAt(fsys, loc.path).type = "dir" THEN FsResult("IsADirectoryError", fsys)
    ELSE IF format = "JPEG" /\ img.mode = "RGBA"
    THEN FsResult("OSError",
                  IF EntryAt(fsys, loc.path).type = "file"
                  THEN WithEntry(fsys, loc.path, FileEntry(NoImage))
                  ELSE fsys)
    ELSE FsResult("none", WithEntry(fsys, loc.path, FileEntry(img)))

\* watermarked_image.save(output_path)
image_save(fsys, output_path, img) ==
    SaveAt(fsys, Resolve(fsys, output_path), save_format(output_path), img)

(***************************************************************************)
(* process_images_in_directory and main: the pieces of their steps.        *)
(***************************************************************************)
\* os.path.join(directory_path, f"{os.path.basename(directory_path)}_watermark")
watermark_dir_of(directory_path) ==
    os_path_join(directory_path,
                 os_path_basename(directory_path) \o <<"_","w","a","t","e","r","m","a","r","k">>)

\* a plausible slip: the result saved beside (over) the file it was made from
output_path_in_place(directory_path, filename) ==
    os_path_join(directory_path, filename)

\* os.path.join(watermark_dir, filename)
output_path_of(directory_path, filename) ==
    os_path_join(watermark_dir_of(directory_path), filename)

\* a plausible slip: the directory is not checked
main_dir_check_skipped(fsys, directory_path) == TRUE

\* os.path.isdir(args.directory)
main_dir_check(fsys, directory_path) == os_path_isdir(fsys, directory_path)

position_choices ==
    {"top-left", "top-center", "top-right", "middle-left", "center",
     "middle-right", "bottom-left", "bottom-center", "bottom-right"}

\* the default of --color
default_color == <<255, 255, 255, 128>>
\* the default of --font-size
font_size == 36

\* the colour as typed: not at all, as the word after -c/--color, or attached
\* to the option (--color=TEXT)
NoColorArg == [given |-> FALSE, attached |-> FALSE, text |-> <<>>]
ColorArg(t) == [given |-> TRUE, attached |-> FALSE, text |-> t]
ColorArgAttached(t) == [given |-> TRUE, attached |-> TRUE, text |-> t]

\* the one-letter options and the long options of the parser
short_options == {"h", "s", "c", "p"}
long_options ==
    {<<"-","-","h","e","l","p">>,
     <<"-","-","f","o","n","t","-","s","i","z","e">>,
     <<"-","-","c","o","l","o","r">>,
     <<"-","-","p","o","s","i","t","i","o","n">>}

AllDigits(t) == \A i \in 1..Len(t) : IsDigit(t[i], 10)

\* argparse's negative-number pattern on the text after the "-":
\* digits, or digits, a dot and digits; a final newline is passed over
NumberBody(t, dots) ==
    IF dots = {} THEN Len(t) >= 1 /\ AllDigits(t)
    ELSE /\ Cardinality(dots) = 1
         /\ SetMin(dots) < Len(t)
         /\ AllDigits(SubSeq(t, 1, SetMin(dots) - 1))
         /\ AllDigits(SubSeq(t, SetMin(dots) + 1, Len(t)))

NumberLine(t) == NumberBody(t, {i \in 1..Len(t) : t[i] = "."})

IsNegativeNumber(word) ==
    NumberLine(IF word[Len(word)] = "\n" THEN SubSeq(word, 2, Len(word) - 1)
               ELSE Tail(word))

\* the part of a word before its first "="
OptionPrefix(word, eqs) ==
    IF eqs = {} THEN word ELSE SubSeq(word, 1, SetMin(eqs) - 1)

\* the long options a word abbreviates: those its part before "=" begins
Abbreviates(word) ==
    {o \in long_options :
        IsPrefix(OptionPrefix(word, {i \in 1..Len(word) : word[i] = "="}), o)}

\* a word after -c/--color that the parser reads as an option, not as the
\* colour: it starts with "-" and is a one-letter option (with or without
\* an attached value), a long option or a prefix of one, or anything else
\* that is neither a negative number nor contains a blank
TakenForOption(word) ==
    /\ Len(word) >= 2
    /\ word[1] = "-"
    /\ \/ word[2] \in short_options
       \/ word[2] = "-" /\ Abbreviates(word) # {}
       \/ ~IsNegativeNumber(word) /\ \A i \in 1..Len(word) : word[i] # " "

\* a word of the command line that abbreviates several long options; the
\* word "--" alone ends the options
IsAmbiguous(word) ==
    /\ startswith(word, <<"-", "-">>)
    /\ word # <<"-", "-">>
    /\ Cardinality(Abbreviates(word)) > 1

\* the parser's errors for an option left without its value and for an
\* ambiguous word
ExpectedOneArgument == [kind |-> "expected one argument", value |-> <<>>]
AmbiguousOption == [kind |-> "ambiguous option", value |-> <<>>]

\* args.color as argparse computes it: type=parse_color applied to a given
\* string, the default otherwise; an ArgumentTypeError or ValueError of the
\* type function is a usage error, and so is a colour word that is ambiguous
\* ("ambiguous option") or taken for an option ("expected one argument"); an
\* attached "--" is dropped from the values, which leaves the empty list
args_color(arg) ==
    IF ~arg.given THEN Tuple(default_color)
    ELSE IF ~arg.attached /\ IsAmbiguous(arg.text) THEN AmbiguousOption
    ELSE IF ~arg.attached /\ TakenForOption(arg.text) THEN ExpectedOneArgument
    ELSE IF arg.attached /\ arg.text = <<"-", "-">> THEN Tuple(<<>>)
    ELSE parse_color(arg.text)

NoReturn == [kind |-> "unreturned", value |-> 0]
ReturnNone == [kind |-> "None", value |-> 0]
NoSummary == [printed |-> FALSE, count |-> 0]
Summary(n) == [printed |-> TRUE, count |-> n]
NoException == [error |-> "none", at |-> "none"]
Exception(e, where) == [error |-> e, at |-> where]
EmptyFileSystem == [q \in {} |-> DirEntry]
\* what the loop last got from add_watermark_to_image, and for which path
NoSeen == [path |-> <<>>, ok |-> FALSE, image |-> NoImage, composited_mode |-> ""]
Seen(step) ==
    [path |-> step.image_path, ok |-> step.image.ok, image |-> step.image.image,
     composited_mode |-> step.image.composited_mode]
NoFirst == [ended |-> FALSE, count |-> 0, written |-> {}, fs |-> EmptyFileSystem]

\* one pass of the loop body on a supported name: the date read, the image
\* made from it, and the outcome of saving it
StepImage(fsys, image_path, output_path, text, img) ==
    [image_path |-> Resolve(fsys, image_path).path,
     output_path |-> Resolve(fsys, output_path).path,
     text |-> text,
     image |-> img,
     saved |-> IF img.ok THEN image_save(fsys, output_path, img.image)
               ELSE FsResult("none", fsys)]

StepText(fsys, files, boxes, image_path, output_path, text, color, pos) ==
    StepImage(fsys, image_path, output_path, text,
              IF text.ok
              THEN add_watermark_to_image(fsys, files, boxes, image_path, text.text,
                                          font_size, color, pos)
              ELSE NoResult)

Iteration(fsys, files, boxes, directory_path, filename, color, pos) ==
    StepText(fsys, files, boxes, os_path_join(directory_path, filename),
             output_path_of(directory_path, filename),
             get_exif_datetime(fsys, os_path_join(directory_path, filename)),
             color, pos)

(***************************************************************************)
(* The inputs of a run: arguments and the directory's contents.            *)
(***************************************************************************)
Photo(pairs, w, h, m) ==
    [opens |-> TRUE, exif_state |-> "dict", exif |-> pairs, loads |-> TRUE,
     size |-> <<w, h>>, mode |-> m, marks |-> <<>>]
Tag(t, v) == [tag |-> t, value |-> v]

Stamp2024 == <<"2","0","2","4",":","0","3",":","1","5"," ","1","0",":","2","0",":","3","0">>
Stamp2023 == <<"2","0","2","3",":","1","2",":","3","1"," ","2","3",":","5","9",":","5","9">>
\* a day padded with a blank, and a tab before the time
StampPadded == <<"2","0","2","3",":","1","2",":"," ","5","\t","2","3",":","5","9",":","5","9">>
\* a year before 1000
Stamp0999 == <<"0","9","9","9",":","0","1",":","0","1"," ","0","0",":","0","0",":","0","0">>
StampZero == <<"0","0","0","0",":","0","0",":","0","0"," ","0","0",":","0","0",":","0","0">>

a_jpg == <<"a",".","j","p","g">>
B_JPEG == <<"B",".","J","P","E","G">>
c_png == <<"c",".","p","n","g">>
d_txt == <<"d",".","t","x","t">>
e_Tiff == <<"e",".","T","i","f","f">>
f_bmp == <<"f",".","b","m","p">>
g_jpg == <<"g",".","j","p","g">>
Hcirc_JPG == <<"U+0124",".","J","P","G">>

\* a file the directory may hold: its name and what it contains
Candidates ==
    {[name |-> a_jpg,
      image |-> Photo(<<Tag("Make", <<"X">>), Tag("DateTimeOriginal", Stamp2024)>>,
                      200, 100, "RGB")],
     [name |-> B_JPEG, image |-> Photo(<<Tag("DateTime", StampPadded)>>, 100, 30, "L")],
     [name |-> c_png,
      image |-> Photo(<<Tag("DateTimeDigitized", Stamp0999)>>, 64, 64, "RGBA")],
     \* not an image
     [name |-> d_txt, image |-> NoImage],
     \* an image without metadata
     [name |-> e_Tiff,
      image |-> [Photo(<<>>, 50, 50, "RGB") EXCEPT !.exif_state = "none"]],
     \* an image of a format whose reader has no _getexif
     [name |-> f_bmp,
      image |-> [Photo(<<>>, 50, 50, "RGB") EXCEPT !.exif_state = "raises"]],
     \* a dated image whose pixel data is truncated
     [name |-> g_jpg,
      image |-> [Photo(<<Tag("DateTimeOriginal", Stamp2023)>>, 200, 100, "RGB")
                    EXCEPT !.loads = FALSE]],
     \* an image whose capture time is not a date
     [name |-> Hcirc_JPG, image |-> Photo(<<Tag("DateTime", StampZero)>>, 200, 100, "RGB")]}

dir_p == <<"p">>
dir_p_slash == <<"p","/">>
dir_q_jpg == <<"q",".","j","p","g">>
\* the same directory as dir_p, from the root and by way of "." and ".."
dir_abs_dots == <<"/","w","/",".","/","p","/",".",".","/","p">>
Directories == {dir_p, dir_p_slash, dir_q_jpg, dir_abs_dots}

\* where the directory argument leads when it exists
TargetOf(dir) ==
    cwd \o << IF dir = dir_q_jpg THEN dir_q_jpg ELSE <<"p">> >>

\* what is at the output directory's path before the first run; a directory
\* in the way of a.jpg's output, or an older output for c.png, where the
\* directory holds that file
OutputBefore(S) ==
    {"absent", "file", "empty"}
    \cup (IF \E c \in S : c.name = a_jpg THEN {"blocked"} ELSE {})
    \cup (IF \E c \in S : c.name = c_png THEN {"stale"} ELSE {})

DirectoryContents == {S \in SUBSET Candidates : Cardinality(S) <= MaxFiles}

OutputPathsBefore(W, before) ==
    CASE before = "absent" -> {}
      [] before \in {"file", "empty"} -> {W}
      [] before = "blocked" -> {W, W \o <<a_jpg>>}
      [] before = "stale" -> {W, W \o <<c_png>>}

\* the file system with the target directory at D, the files S in it, and the
\* given state of the output directory at W
FileSystemAt(D, W, S, before) ==
    [q \in {D} \cup {D \o <<c.name>> : c \in S} \cup OutputPathsBefore(W, before) |->
        IF q = D THEN DirEntry
        ELSE IF \E c \in S : D \o <<c.name>> = q
             THEN FileEntry((CHOOSE c \in S : D \o <<c.name>> = q).image)
        ELSE IF q = W
             THEN (IF before = "file" THEN FileEntry(NoImage) ELSE DirEntry)
        ELSE IF before = "blocked" THEN DirEntry
        ELSE FileEntry(Photo(<<>>, 1, 1, "RGB"))]

InitialFileSystemsAt(D, W) ==
    UNION {{FileSystemAt(D, W, S, b) : b \in OutputBefore(S)} : S \in DirectoryContents}
    \cup {EmptyFileSystem, [q \in {D} |-> FileEntry(NoImage)]}

InitialFileSystems(dir) ==
    InitialFileSystemsAt(TargetOf(dir),
                         Append(TargetOf(dir),
                                os_path_basename(dir)
                                   \o <<"_","w","a","t","e","r","m","a","r","k">>))

color_FF000080 == <<"#","F","F","0","0","0","0","8","0">>
color_bogus == <<"b","o","g","u","s">>
color_abc == <<"a",",","b",",","c">>
color_minus == <<"-","1",",","2",",","3">>
color_dashes == <<"-","-","=","1",",","2",",","3">>
ColorArgs == {NoColorArg, ColorArg(color_FF000080), ColorArg(color_bogus),
              ColorArg(color_abc), ColorArg(color_minus),
              ColorArgAttached(color_minus), ColorArg(color_dashes)}

MainPositions == {"bottom-right", "center", "diagonal"}

\* the dates the candidate files bear
DateTexts ==
    {ExifDateOf(FileEntry(c.image)).text :
        c \in {c \in Candidates : ExifDateOf(FileEntry(c.image)).ok}}

\* three machines, by the fonts they have and what the font loaded there
\* measures for a date (left, top, right, bottom): one box for every date,
\* one that is wider than the widest image, and one that grows with the text
Machines ==
    {[font_files |-> {"arial.ttf", "DejaVuSans.ttf"},
      textbbox |-> [t \in DateTexts |-> <<0, 7, 180, 33>>]],
     [font_files |-> {"DejaVuSans.ttf"},
      textbbox |-> [t \in DateTexts |-> <<1, 8, 204, 35>>]],
     [font_files |-> {},
      textbbox |-> [t \in DateTexts |-> <<0, 2, 6 * Len(t), 11>>]]}

(***************************************************************************)
(* Spec: main() run on a directory, and run once more when it has ended.   *)
(***************************************************************************)
IdlePure ==
    /\ color_string = <<>> /\ color_result = Pending
    /\ width = 1 /\ height = 1 /\ text_width = 0 /\ text_height = 0
    /\ origin = <<>>

IdleRun ==
    /\ directory = <<>> /\ color_arg = NoColorArg /\ font_color = <<>>
    /\ font_files = {} /\ textbbox = <<>>
    /\ fs = EmptyFileSystem /\ fs0 = EmptyFileSystem
    /\ pc = "idle" /\ run = 0 /\ remaining = {} /\ processed_count = 0
    /\ written = {} /\ opened = {} /\ retval = NoReturn /\ summary = NoSummary
    /\ raised = NoException /\ first = NoFirst /\ last_image = NoSeen

Init ==
    /\ IdlePure
    /\ directory \in Directories
    /\ color_arg \in ColorArgs
    /\ position \in MainPositions
    /\ fs \in InitialFileSystems(directory)
    /\ fs0 = fs
    /\ \E machine \in Machines :
          /\ font_files = machine.font_files
          /\ textbbox = machine.textbbox
    /\ font_color = <<>>
    /\ pc = "parse_args" /\ run = 1
    /\ remaining = {} /\ processed_count = 0 /\ written = {} /\ opened = {}
    /\ retval = NoReturn /\ summary = NoSummary /\ raised = NoException
    /\ first = NoFirst /\ last_image = NoSeen

ParsedArgs(color) ==
    IF color.kind # "tuple" \/ position \notin position_choices
    THEN \* parser.parse_args() rejects the arguments: usage error, exit status 2
         /\ pc' = "exit_usage"
         /\ UNCHANGED font_color
    ELSE /\ pc' = "check_dir"
         /\ font_color' = color.value

\* args = parser.parse_args()
ParseArgs ==
    /\ pc = "parse_args"
    /\ ParsedArgs(args_color(color_arg))
    /\ UNCHANGED <<inputVars, fs, remaining, processed_count, written, opened,
                   retval, summary, raised, last_image>>

\* if not os.path.isdir(args.directory): print the error and return
DirectoryMissing ==
    /\ pc = "check_dir"
    /\ ~main_dir_check(fs, directory)
    /\ pc' = "exit_nodir"
    /\ UNCHANGED <<inputVars, font_color, fs, remaining, processed_count, written,
                   opened, retval, summary, raised, last_image>>

\* the banner is printed and process_images_in_directory is entered
DirectoryFound ==
    /\ pc = "check_dir"
    /\ main_dir_check(fs, directory)
    /\ pc' = "makedirs"
    /\ UNCHANGED <<inputVars, font_color, fs, remaining, processed_count, written,
                   opened, retval, summary, raised, last_image>>

MadeDirs(made) ==
    IF made.error = "none"
    THEN /\ fs' = made.fs
         /\ pc' = "listdir"
         /\ UNCHANGED raised
    ELSE \* the exception leaves process_images_in_directory and main
         /\ raised' = Exception(made.error, "makedirs")
         /\ pc' = "raised"
         /\ fs' = made.fs

\* os.makedirs(watermark_dir, exist_ok=True)
MakeDirs ==
    /\ pc = "makedirs"
    /\ MadeDirs(os_makedirs(fs, watermark_dir_of(directory), exist_ok))
    /\ UNCHANGED <<inputVars, font_color, remaining, processed_count, written,
                   opened, retval, summary, last_image>>

\* processed_count = 0; for filename in os.listdir(directory_path)
ListDir ==
    /\ pc = "listdir"
    /\ processed_count' = 0
    /\ remaining' = os_listdir(fs, directory)
    /\ pc' = "loop"
    /\ UNCHANGED <<inputVars, font_color, fs, written, opened, retval, summary,
                   raised, last_image>>

\* an iteration on a name without a supported extension
SkipUnsupported(filename) ==
    /\ pc = "loop"
    /\ ~is_supported(filename)
    /\ remaining' = remaining \ {filename}
    /\ UNCHANGED <<inputVars, font_color, fs, pc, processed_count, written, opened,
                   retval, summary, raised, last_image>>

\* get_exif_datetime returns nothing: warn and continue
NoDateStep(filename, step) ==
    /\ opened' = opened \cup {step.image_path}
    /\ remaining' = remaining \ {filename}
    /\ UNCHANGED <<inputVars, font_color, fs, pc, processed_count, written, retval,
                   summary, raised, last_image>>

\* add_watermark_to_image returns nothing: nothing is saved or counted
NotWatermarkedStep(filename, step) ==
    /\ last_image' = Seen(step)
    /\ opened' = opened \cup {step.image_path}
    /\ remaining' = remaining \ {filename}
    /\ UNCHANGED <<inputVars, font_color, fs, pc, processed_count, written, retval,
                   summary, raised>>

\* the watermarked image is saved and counted
SaveStep(filename, step) ==
    /\ fs' = step.saved.fs
    /\ last_image' = Seen(step)
    /\ opened' = opened \cup {step.image_path}
    /\ written' = written \cup {step.output_path}
    /\ processed_count' = processed_count + 1
    /\ remaining' = remaining \ {filename}
    /\ UNCHANGED <<inputVars, font_color, pc, retval, summary, raised>>

\* the save raises: nothing catches it
SaveRaisesStep(filename, step) ==
    /\ raised' = Exception(step.saved.error, "save")
    /\ fs' = step.saved.fs
    /\ last_image' = Seen(step)
    /\ opened' = opened \cup {step.image_path}
    /\ pc' = "raised"
    /\ UNCHANGED <<inputVars, font_color, remaining, processed_count, written,
                   retval, summary>>

\* the branches of the loop body
IterationStep(filename, step) ==
    IF ~step.text.ok THEN NoDateStep(filename, step)
    ELSE IF ~step.image.ok THEN NotWatermarkedStep(filename, step)
    ELSE IF step.saved.error = "none" THEN SaveStep(filename, step)
    ELSE SaveRaisesStep(filename, step)

\* an iteration on a name with a supported extension
Iterate(filename) ==
    /\ pc = "loop"
    /\ is_supported(filename)
    /\ IterationStep(filename,
                     Iteration(fs, font_files, textbbox, directory, filename,
                               font_color, position))

\* the listing is exhausted: print the count; the function ends without a
\* return statement
Finish ==
    /\ pc = "loop"
    /\ remaining = {}
    /\ summary' = Summary(processed_count)
    /\ retval' = ReturnNone
    /\ pc' = "done"
    /\ UNCHANGED <<inputVars, font_color, fs, remaining, processed_count, written,
                   opened, raised, last_image>>

\* the program is started again with the same arguments
RunAgain ==
    /\ pc = "done"
    /\ run = 1
    /\ first' = [ended |-> TRUE, count |-> processed_count, written |-> written,
                 fs |-> fs]
    /\ run' = 2
    /\ pc' = "parse_args"
    /\ font_color' = <<>>
    /\ remaining' = {} /\ processed_count' = 0 /\ written' = {} /\ opened' = {}
    /\ retval' = NoReturn /\ summary' = NoSummary /\ last_image' = NoSeen
    /\ UNCHANGED <<pureVars, position, directory, color_arg, machineVars, fs, fs0,
                   raised>>

Next ==
    \/ ParseArgs
    \/ DirectoryMissing
    \/ DirectoryFound
    \/ MakeDirs
    \/ ListDir
    \/ \E filename \in remaining : SkipUnsupported(filename)
    \/ \E filename \in remaining : Iterate(filename)
    \/ Finish
    \/ RunAgain

Spec == Init /\ [][Next]_vars

(***************************************************************************)
(* SpecColor: parse_color applied to each input.                           *)
(***************************************************************************)
RECURSIVE Join(_, _)
Join(ss, sep) ==
    IF ss = <<>> THEN <<>>
    ELSE IF Len(ss) = 1 THEN ss[1]
    ELSE ss[1] \o <<sep>> \o Join(Tail(ss), sep)

ShapeAlphabet == {"#", ",", "1", "a", "G", "-", " ", "\t"}
AnyStrings == UNION {[1..n -> ShapeAlphabet] : n \in 0..MaxAnyLen}

\* two-character pieces of a hex colour: bytes, and pieces int(_, 16)
\* rejects or reads in an unexpected way
HexPieces == {<<"0","0">>, <<"F","F">>, <<"f","f">>, <<"8","0">>, <<"1","a">>,
              <<"G","G">>, <<"-","1">>, <<" ","7">>, <<"0","x">>, <<"1","_">>,
              <<"\n","1">>, <<"","1">>, <<"U+0661","U+0662">>}
HexStrings ==
    {<<"#">> \o Concat(p) : p \in UNION {[1..n -> HexPieces] : n \in 3..4}}

\* components of a comma colour
CommaPieces == {<<"0">>, <<"7">>, <<"2","5","5">>, <<"2","5","6">>, <<"0","1","2">>,
                <<" ","1","2"," ">>, <<"-","1">>, <<"a">>, <<>>, <<"1","_","0">>,
                <<"\t","2","\n">>, <<"","3">>, <<"U+2003","U+0663">>}
CommaStrings ==
    {Join(p, ",") : p \in UNION {[1..n -> CommaPieces] : n \in 3..4}}

\* more components than a colour has
LongCommaStrings ==
    {Join(p, ",") : p \in [1..5 -> {<<"0">>, <<"2","5","5">>}]}

\* components of as many digits as int() reads, and of one digit more
Zeros(n) == [i \in 1..n |-> "0"]
LimitStrings ==
    {<<"0", ",", "0", ",">> \o Zeros(n) \o tail :
        n \in {int_max_str_digits - 2, int_max_str_digits - 1},
        tail \in {<<"0">>, <<"0", "0">>, <<"1", "2">>}}

ColorInputs ==
    AnyStrings \cup HexStrings \cup CommaStrings \cup LongCommaStrings
    \cup LimitStrings

InitColor ==
    /\ color_string \in ColorInputs
    /\ color_result = Pending
    /\ width = 1 /\ height = 1 /\ text_width = 0 /\ text_height = 0
    /\ position = "bottom-right" /\ origin = <<>>
    /\ IdleRun

CallParseColor ==
    /\ color_result = Pending
    /\ color_result' = parse_color(color_string)
    /\ UNCHANGED <<color_string, posVars, position, argVars, machineVars,
                   runVars>>

NextColor == CallParseColor

SpecColor == InitColor /\ [][NextColor]_vars

(***************************************************************************)
(* SpecPos: the draw origin computed for each size and position string.    *)
(***************************************************************************)
PositionInputs ==
    {"top-left", "top-center", "top-right", "middle-left", "center",
     "middle-right", "bottom-left", "bottom-center", "bottom-right",
     "", "middle", "Center", "middle-center", "left"}

InitPos ==
    /\ width \in 1..MaxDim
    /\ height \in 1..MaxDim
    /\ text_width \in 0..MaxText
    /\ text_height \in 0..MaxText
    /\ position \in PositionInputs
    /\ origin = <<>>
    /\ color_string = <<>> /\ color_result = Pending
    /\ IdleRun

ComputeOrigin ==
    /\ origin = <<>>
    /\ origin' = draw_origin(width, height, text_width, text_height, position)
    /\ UNCHANGED <<colorVars, width, height, text_width, text_height, position,
                   argVars, machineVars, runVars>>

NextPos == ComputeOrigin

SpecPos == InitPos /\ [][NextPos]_vars

(***************************************************************************)
(* Claims about parse_color (checked under SpecColor).                     *)
(***************************************************************************)
\* the hex digits in order of value, as the claims read them
HexLower == <<"0","1","2","3","4","5","6","7","8","9","a","b","c","d","e","f">>
HexUpper == <<"0","1","2","3","4","5","6","7","8","9","A","B","C","D","E","F">>
IsHexChar(c) == \E i \in 1..16 : HexLower[i] = c \/ HexUpper[i] = c
HexCharValue(c) == (CHOOSE i \in 1..16 : HexLower[i] = c \/ HexUpper[i] = c) - 1
IsDecimalChar(c) == \E i \in 1..10 : HexLower[i] = c

\* '#' followed by 6 or 8 hex digits
IsHexForm(s) ==
    /\ Len(s) \in {7, 9}
    /\ s[1] = "#"
    /\ \A i \in 2..Len(s) : IsHexChar(s[i])

\* the byte values a hex form encodes, in order
HexFormBytes(s) ==
    [k \in 1..((Len(s) - 1) \div 2) |->
        16 * HexCharValue(s[2 * k]) + HexCharValue(s[2 * k + 1])]

RECURSIVE NumeralValue(_)
NumeralValue(n) ==
    IF \A i \in 1..Len(n) : n[i] = "0" THEN 0
    ELSE 10 * NumeralValue(SubSeq(n, 1, Len(n) - 1)) + HexCharValue(n[Len(n)])

IsNumeral(n) == Len(n) >= 1 /\ \A i \in 1..Len(n) : IsDecimalChar(n[i])

\* 3 or 4 comma-separated decimal numerals
IsCommaForm(s) ==
    LET pieces == str_split(s, ",")
    IN  /\ Len(pieces) \in {3, 4}
        /\ \A k \in 1..Len(pieces) : IsNumeral(pieces[k])

CommaFormValues(s) ==
    LET pieces == str_split(s, ",")
    IN  [k \in 1..Len(pieces) |-> NumeralValue(pieces[k])]

\* ... each of them in [0,255]
IsByteCommaForm(s) ==
    /\ IsCommaForm(s)
    /\ \A k \in 1..Len(CommaFormValues(s)) : CommaFormValues(s)[k] \in 0..255

Called == color_result # Pending

\* C4: for '#' followed by 6 or 8 hex digits parse_color returns the hex byte
\* values in order, for 3 or 4 comma-separated integers in [0,255] it returns
\* those integers in order, and alpha is 255 when only three channels are given.
C4_AcceptedFormsParse ==
    Called =>
        /\ IsHexForm(color_string) =>
              color_result =
                 Tuple(IF Len(color_string) = 7
                       THEN HexFormBytes(color_string) \o <<255>>
                       ELSE HexFormBytes(color_string))
        /\ IsByteCommaForm(color_string) =>
              color_result =
                 Tuple(IF Len(CommaFormValues(color_string)) = 3
                       THEN CommaFormValues(color_string) \o <<255>>
                       ELSE CommaFormValues(color_string))

\* C5: every colour parse_color returns is a 4-tuple of channels in [0,255].
C5_ChannelsInRange ==
    color_result.kind = "tuple" =>
        /\ Len(color_result.value) = 4
        /\ \A k \in 1..Len(color_result.value) : color_result.value[k] \in 0..255

\* C6: on every string that is not of the form #RRGGBB, #RRGGBBAA, R,G,B or
\* R,G,B,A parse_color returns no tuple and fails with the one format error
\* (argparse.ArgumentTypeError), never with another kind of error.
C6_OnlyFormatError ==
    (Called /\ ~IsHexForm(color_string) /\ ~IsCommaForm(color_string)) =>
        color_result = ArgumentTypeError

(***************************************************************************)
(* Claims about the draw origin (checked under SpecPos).                   *)
(***************************************************************************)
LeftAnchors == {"top-left", "middle-left", "bottom-left"}
RightAnchors == {"top-right", "middle-right", "bottom-right"}
HCenterAnchors == {"top-center", "center", "bottom-center"}
TopAnchors == {"top-left", "top-center", "top-right"}
BottomAnchors == {"bottom-left", "bottom-center", "bottom-right"}
VCenterAnchors == {"middle-left", "center", "middle-right"}
NineAnchors == LeftAnchors \cup RightAnchors \cup HCenterAnchors

\* C7: x is 10 for *-left, width-tw-10 for *-right and (width-tw) div 2 for
\* centred anchors; y is 10 for top-*, height-th-10 for bottom-* and (height-th)
\* div 2 for middle-*/center; any other position string yields the bottom-right
\* origin (width-tw-10, height-th-10).
C7_OriginFollowsAnchor ==
    origin # <<>> =>
        /\ position \in LeftAnchors => origin[1] = 10
        /\ position \in RightAnchors => origin[1] = width - text_width - 10
        /\ position \in HCenterAnchors => origin[1] = (width - text_width) \div 2
        /\ position \in TopAnchors => origin[2] = 10
        /\ position \in BottomAnchors => origin[2] = height - text_height - 10
        /\ position \in VCenterAnchors => origin[2] = (height - text_height) \div 2
        /\ position \notin NineAnchors =>
              origin = <<width - text_width - 10, height - text_height - 10>>

\* an unknown position string got the bottom-right origin, with a text wider
\* than the image
C7_Witness ==
    /\ position = "middle"
    /\ width = 3 /\ text_width = 6 /\ height = 5 /\ text_height = 2
    /\ origin = <<-13, -7>>

(***************************************************************************)
(* Claims about a run of main() (checked under Spec).                      *)
(***************************************************************************)
\* where each directory argument leads, and where its output directory is
ClaimDir ==
    CASE directory = dir_p -> << <<"w">>, <<"p">> >>
      [] directory = dir_p_slash -> << <<"w">>, <<"p">> >>
      [] directory = dir_q_jpg -> << <<"w">>, <<"q",".","j","p","g">> >>
      [] directory = dir_abs_dots -> << <<"w">>, <<"p">> >>
ClaimOutDir ==
    CASE directory = dir_p ->
            << <<"w">>, <<"p">>, <<"p","_","w","a","t","e","r","m","a","r","k">> >>
      [] directory = dir_p_slash ->
            << <<"w">>, <<"p">>, <<"_","w","a","t","e","r","m","a","r","k">> >>
      [] directory = dir_q_jpg ->
            << <<"w">>, <<"q",".","j","p","g">>,
               <<"q",".","j","p","g","_","w","a","t","e","r","m","a","r","k">> >>
      [] directory = dir_abs_dots ->
            << <<"w">>, <<"p">>, <<"p","_","w","a","t","e","r","m","a","r","k">> >>

\* the files the directory held when the program was started
InputPaths == {q \in DOMAIN fs0 : Parent(q) = ClaimDir /\ fs0[q].type = "file"}
InputNames == {q[Len(q)] : q \in InputPaths}

\* names with a supported extension and names whose file has no capture date
SupportedNames == {a_jpg, B_JPEG, c_png, e_Tiff, f_bmp, g_jpg, Hcirc_JPG}
UndatedNames == {e_Tiff, f_bmp, Hcirc_JPG}
JpegNames == {a_jpg, B_JPEG, g_jpg, Hcirc_JPG}
CountN == Cardinality(InputNames \cap SupportedNames)
CountM == Cardinality(InputNames \cap UndatedNames)

\* C1: a run on N supported files, M of them without a capture date, ends
\* with exactly N-M files written and returns N-M to its caller.
C1_ReturnsCount ==
    pc \in {"done", "raised"} =>
        /\ Cardinality(written) = CountN - CountM
        /\ retval = [kind |-> "int", value |-> CountN - CountM]

\* C2: a failure on one file (metadata, open, draw, composite or save) never
\* aborts the run: no exception of a per-file step leaves the directory
\* processor.
C2_NoFileAbortsRun == raised.at # "save"

MalformedColors == {color_bogus, color_abc}
FatalArguments ==
    \/ color_arg.given /\ color_arg.text \in MalformedColors
    \/ ~(ClaimDir \in DOMAIN fs0 /\ fs0[ClaimDir].type = "dir")

\* C3: with a malformed colour or a path that is no existing directory the
\* program never creates the output directory, reads no image and writes no
\* file; the directory processor starts only after both checks have passed.
C3_FatalBeforeFiles ==
    /\ FatalArguments =>
          /\ fs = fs0
          /\ opened = {}
          /\ written = {}
          /\ pc \in {"parse_args", "check_dir", "exit_usage", "exit_nodir"}
    /\ pc \in {"makedirs", "listdir", "loop", "done", "raised"} => ~FatalArguments

\* the program has ended on a malformed colour, in a directory with images
C3_Witness ==
    /\ pc = "exit_usage"
    /\ color_arg = ColorArg(color_abc)
    /\ InputNames = {a_jpg, c_png}
    /\ ClaimOutDir \notin DOMAIN fs

\* C8: whenever add_watermark_to_image succeeds on a .jpg/.jpeg name (any
\* letter case) the image it returns has no alpha channel, although the
\* composite was made with one; so every file saved under such a name is
\* saved without alpha.
C8_JpegOpaque ==
    /\ last_image.ok =>
          /\ last_image.composited_mode = "RGBA"
          /\ last_image.path[Len(last_image.path)] \in JpegNames =>
                last_image.image.mode = "RGB"
    /\ \A q \in written : q[Len(q)] \in JpegNames => fs[q].image.mode = "RGB"

\* an upper-case .JPEG has been watermarked and saved
C8_Witness ==
    /\ last_image.ok
    /\ last_image.path = ClaimDir \o <<B_JPEG>>
    /\ ClaimOutDir \o <<B_JPEG>> \in written

\* C9: a second run with the same arguments on the unchanged directory does
\* not fail because the output directory exists, does not read the output
\* directory or its contents as input, and ends with the same count, the same
\* output file names and the same content per output file as the first.
C9_SecondRunSame ==
    /\ run = 2 => pc \notin {"raised", "exit_usage", "exit_nodir"}
    /\ \A q \in opened : ~IsPrefix(ClaimOutDir, q)
    /\ (run = 2 /\ pc = "done") =>
          /\ processed_count = first.count
          /\ summary = Summary(first.count)
          /\ written = first.written
          /\ fs = first.fs

\* a second run has ended after saving two files over the first run's
C9_Witness ==
    /\ run = 2
    /\ pc = "done"
    /\ processed_count = 2
    /\ written = {ClaimOutDir \o <<a_jpg>>, ClaimOutDir \o <<c_png>>}

\* C10: no run modifies or deletes an input file: every file listed in the
\* directory keeps its content, because every write goes to
\* <dir_path>/<basename(dir_path)>_watermark/<same filename>, never the path
\* of an input file.
C10_InputsUntouched ==
    /\ \A q \in DOMAIN fs0 : q \in DOMAIN fs
    /\ \A q \in InputPaths : fs[q] = fs0[q]
    /\ \A q \in written :
          /\ q \notin InputPaths
          /\ Parent(q) = ClaimOutDir
          /\ q[Len(q)] \in InputNames

\* a file has been saved for a directory given with a trailing separator
C10_Witness ==
    /\ directory = dir_p_slash
    /\ pc = "done"
    /\ written = {<< <<"w">>, <<"p">>, <<"_","w","a","t","e","r","m","a","r","k">>, a_jpg >>}
    /\ fs[<< <<"w">>, <<"p">>, a_jpg >>] = fs0[<< <<"w">>, <<"p">>, a_jpg >>]

====
